---------------------------- MODULE Spec2Model ----------------------------
(***************************************************************************)
(* better_option: Option<T> / Result<T,E> storage and ownership layer.    *)
(*                                                                         *)
(* Two named Option<T> objects ("a", "b") and two named Result<T,E>        *)
(* objects ("a", "b") are driven by a client that calls the public         *)
(* operations of include/option.hpp and include/result.hpp.  Every         *)
(* operation is a pure operator over storage records, translated from the  *)
(* C++ member function, and one action applies it to the client's objects. *)
(*                                                                         *)
(* A payload slot is modelled by an integer:                               *)
(*    1..MaxVal   a live T (or E) holding that value                       *)
(*    Moved       a live T that has been moved from (valid, emptied husk)  *)
(*    Dead        no live object: raw, indeterminate bytes                 *)
(* T is either trivially copyable/movable/destructible (int) or a          *)
(* non-trivial type such as std::vector / std::string whose move leaves    *)
(* the source Moved and whose construction from arguments may throw.       *)
(***************************************************************************)
EXTENDS Integers, FiniteSets, Sequences, TLC

MaxVal == 2

Values == 1..MaxVal

Moved == 0

Dead == -1

LiveVals == Values \cup {Moved}

Names == {"a", "b"}

Overloads == {"lvalue", "const", "rvalue"}

\* trivialT  TRUE: T is trivially movable (int); FALSE: std::vector-like
\* opt       opt[n]: the OptionStorage<T> of the client's Option n
\* res       res[n]: the ResultStorage<T,E> of the client's Result n
\* op        the last operation the client called, with its inputs
\* ret       what that operation returned
\* calls     how many times that operation invoked the supplied function
\* threw     whether that operation left by an exception
\* pre       opt as it was immediately before that operation
\* rpre      res as it was immediately before that operation
\* swapRun   number of consecutive swaps of the same operands (0, 1, 2)
\* swapBase  the swapped containers' storage before that run of swaps began
\* origin    origin[n]: the v of the Option{Some, v} that constructed Option n,
\*           while only non-mutating operations have touched n since; else 0
VARIABLES trivialT, opt, res, op, ret, calls, threw, pre, rpre, swapRun, swapBase, origin, life, rlife, rf, same, iw, lay

vars == <<trivialT, opt, res, op, ret, calls, threw, pre, rpre, swapRun, swapBase, origin, life, rlife, rf, same, iw, lay>>

-----------------------------------------------------------------------------
(* Pure helpers *)

\* The function the client passes to map: the "multiply by 2" of the tests.
F(v) == 2 * v

\* T's own three-way comparison.
Cmp3(x, y) == IF x < y THEN "less" ELSE IF x > y THEN "greater" ELSE "equivalent"

\* What a client can observe of an Option: its flag, and its payload if present.
View(s) == IF s.init THEN <<TRUE, s.slot>> ELSE <<FALSE>>

NoOp == [name |-> "init", x |-> "a", y |-> "a", arg |-> 0, ov |-> "lvalue",
         fail |-> FALSE, consume |-> FALSE, fnone |-> FALSE]

NoRet == [kind |-> "none", init |-> FALSE, slot |-> Dead]

OptRet(s) == [kind |-> "opt", init |-> s.init, slot |-> s.slot]

ValRet(v) == [kind |-> "val", init |-> TRUE, slot |-> v]

-----------------------------------------------------------------------------
(* OptionStorage<T>, generic representation *)

\* OptionStorage(NoneTag): flag false, slot left untouched (raw bytes).
OptionStorage_None == [init |-> FALSE, slot |-> Dead]

\* OptionStorage(SomeTag, args...): T built in the slot, then flag true.
OptionStorage_Some(v) == [init |-> TRUE, slot |-> v]

\* reset(): destroy the payload of a non-trivially-destructible T, clear flag.
OptionStorage_reset(tr, s) ==
    [init |-> FALSE, slot |-> IF tr THEN s.slot ELSE Dead]

\* OptionStorage(const OptionStorage&)
OptionStorage_copy_ctor(tr, other) ==
    IF tr THEN other
    ELSE IF other.init THEN OptionStorage_Some(other.slot)
    ELSE OptionStorage_None

\* OptionStorage(OptionStorage&&): the pair (constructed object, source after).
OptionStorage_move_ctor(tr, other) ==
    IF tr THEN [this |-> other, other |-> other]
    ELSE IF other.init
         THEN [this |-> OptionStorage_Some(other.slot),
               other |-> [init |-> TRUE, slot |-> Moved]]
         ELSE [this |-> OptionStorage_None, other |-> other]

\* A swap that moves the payload across but forgets to reset the donor.
OptionStorage_swap_NoReset(tr, this, other) ==
    IF tr THEN [this |-> other, other |-> this]
    ELSE IF other.init /\ this.init
         THEN [this |-> [this EXCEPT !.slot = other.slot],
               other |-> [other EXCEPT !.slot = this.slot]]
    ELSE IF other.init
         THEN [this |-> OptionStorage_Some(other.slot),
               other |-> [other EXCEPT !.slot = Moved]]
    ELSE IF this.init
         THEN [this |-> [this EXCEPT !.slot = Moved],
               other |-> OptionStorage_Some(this.slot)]
    ELSE [this |-> this, other |-> other]

\* swap(other): the pair (this after, other after).
OptionStorage_swap(tr, this, other) ==
    IF tr THEN [this |-> other, other |-> this]
    ELSE IF other.init /\ this.init
         THEN [this |-> [this EXCEPT !.slot = other.slot],
               other |-> [other EXCEPT !.slot = this.slot]]
    ELSE IF other.init
         THEN [this |-> OptionStorage_Some(other.slot),
               other |-> OptionStorage_reset(tr, [other EXCEPT !.slot = Moved])]
    ELSE IF this.init
         THEN [this |-> OptionStorage_reset(tr, [this EXCEPT !.slot = Moved]),
               other |-> OptionStorage_Some(this.slot)]
    ELSE [this |-> this, other |-> other]

\* operator=(const OptionStorage&): copy into a temporary, swap it in.
OptionStorage_copy_assign(tr, this, other) ==
    IF tr THEN other
    ELSE OptionStorage_swap(tr, this, OptionStorage_copy_ctor(tr, other)).this

\* operator=(OptionStorage&&): the pair (this after, other after).
OptionStorage_move_assign(tr, this, other) ==
    IF tr THEN [this |-> other, other |-> other]
    ELSE LET m == OptionStorage_move_ctor(tr, other)
         IN  [this |-> OptionStorage_swap(tr, this, m.this).this,
              other |-> m.other]

-----------------------------------------------------------------------------
(* Option<T>, the value type *)

\* A take() that hands out a copy and leaves this as it was.
Option_take_NoReset(tr, this) ==
    [this |-> this, ret |-> OptionStorage_copy_ctor(tr, this)]

\* take(): swap with a fresh None, return the temporary.
Option_take(tr, this) ==
    LET sw == OptionStorage_swap(tr, this, OptionStorage_None)
    IN  [this |-> sw.this, ret |-> OptionStorage_move_ctor(tr, sw.other).this]

\* An insert() that overwrites this in place and returns a fresh None.
Option_insert_NoSwap(tr, this, v, fail) ==
    IF fail
    THEN [this |-> this, ret |-> NoRet, threw |-> TRUE]
    ELSE [this |-> OptionStorage_Some(v), ret |-> OptRet(OptionStorage_None),
          threw |-> FALSE]

\* An insert() that resets this before it builds the replacement.
Option_insert_ResetFirst(tr, this, v, fail) ==
    IF fail
    THEN [this |-> OptionStorage_reset(tr, this), ret |-> NoRet, threw |-> TRUE]
    ELSE [this |-> OptionStorage_Some(v),
          ret |-> OptRet(OptionStorage_move_ctor(tr, this).this),
          threw |-> FALSE]

\* insert(args...): build the replacement, swap it in, return the temporary.
\* fail: T's constructor throws while the temporary is being built.
Option_insert(tr, this, v, fail) ==
    IF fail
    THEN [this |-> this, ret |-> NoRet, threw |-> TRUE]
    ELSE LET sw == OptionStorage_swap(tr, this, OptionStorage_Some(v))
         IN  [this |-> sw.this,
              ret |-> OptRet(OptionStorage_move_ctor(tr, sw.other).this),
              threw |-> FALSE]

\* operator=(NoneTag): take() and drop the result.
Option_assign_none(tr, this) == Option_take(tr, this).this

\* An unwrap() whose presence test is inverted.
Option_unwrap_Inverted(this, ov) ==
    IF ~this.init
    THEN [ret |-> ValRet(this.slot), threw |-> FALSE]
    ELSE [ret |-> NoRet, threw |-> TRUE]

\* An unwrap() that hands out the slot without testing for presence.
Option_unwrap_Unchecked(this, ov) ==
    [ret |-> ValRet(this.slot), threw |-> FALSE]

\* unwrap(), the three overloads: the payload, or a runtime_error when absent.
Option_unwrap(this, ov) ==
    IF this.init
    THEN [ret |-> ValRet(this.slot), threw |-> FALSE]
    ELSE [ret |-> NoRet, threw |-> TRUE]

\* A map(f) && that extracts the payload with take(), emptying this.
Option_map_rvalue_Take(tr, this, consume) ==
    IF this.init
    THEN [this |-> OptionStorage_reset(tr, [this EXCEPT !.slot = Moved]),
          ret |-> OptRet(OptionStorage_Some(F(this.slot))), calls |-> 1]
    ELSE [this |-> this, ret |-> OptRet(OptionStorage_None), calls |-> 0]

\* map(f) &&: f receives the payload as an rvalue; consume: f moves from it.
Option_map_rvalue(tr, this, consume) ==
    IF this.init
    THEN [this |-> [this EXCEPT !.slot = IF consume /\ ~tr THEN Moved ELSE @],
          ret |-> OptRet(OptionStorage_Some(F(this.slot))), calls |-> 1]
    ELSE [this |-> this, ret |-> OptRet(OptionStorage_None), calls |-> 0]

\* A map(f) const that calls f without testing for presence.
Option_map_const_Unchecked(this) ==
    [ret |-> OptRet(OptionStorage_Some(F(this.slot))), calls |-> 1]

\* map(f) const: f receives a const reference to the payload.
Option_map_const(this) ==
    IF this.init
    THEN [ret |-> OptRet(OptionStorage_Some(F(this.slot))), calls |-> 1]
    ELSE [ret |-> OptRet(OptionStorage_None), calls |-> 0]

\* T{}: a value-initialised T (0 for int, empty for a container).
DefaultT == 0

\* An extraction that moves the payload out whatever the overload.
Extracted_AlwaysMoves(tr, this, ov) ==
    IF this.init /\ ~tr THEN [this EXCEPT !.slot = Moved] ELSE this

\* The payload after a by-value extraction: the rvalue overloads move the
\* payload out and leave the flag alone; the const overloads copy.
Extracted(tr, this, ov) ==
    IF ov = "rvalue" /\ this.init /\ ~tr THEN [this EXCEPT !.slot = Moved] ELSE this

\* unwrap_or_default() && / const&
Option_unwrap_or_default(tr, this, ov) ==
    [this |-> Extracted(tr, this, ov),
     ret |-> ValRet(IF this.init THEN this.slot ELSE DefaultT),
     calls |-> 0]

\* unwrap_or(default_val) && / const&
Option_unwrap_or(tr, this, d, ov) ==
    [this |-> Extracted(tr, this, ov),
     ret |-> ValRet(IF this.init THEN this.slot ELSE d),
     calls |-> 0]

\* An unwrap_or_else() that evaluates the closure before testing presence.
Option_unwrap_or_else_Eager(tr, this, g, ov) ==
    [this |-> Extracted(tr, this, ov),
     ret |-> ValRet(IF this.init THEN this.slot ELSE g),
     calls |-> 1]

\* unwrap_or_else(on_none) && / const&.  g: the value on_none() returns.
Option_unwrap_or_else(tr, this, g, ov) ==
    [this |-> Extracted(tr, this, ov),
     ret |-> ValRet(IF this.init THEN this.slot ELSE g),
     calls |-> IF this.init THEN 0 ELSE 1]

\* The Option-returning function the client passes to and_then.
\* fnone: the function answers None (for a Result: Err).
FO(v, fnone) == IF fnone THEN OptionStorage_None ELSE OptionStorage_Some(F(v))

\* An and_then() that wraps the function's value the way map does.
Option_and_then_Wrapping(tr, this, ov, consume, fnone) ==
    IF this.init
    THEN [this |-> IF ov = "rvalue" /\ consume /\ ~tr
                   THEN [this EXCEPT !.slot = Moved] ELSE this,
          ret |-> OptRet(OptionStorage_Some(F(this.slot))), calls |-> 1]
    ELSE [this |-> this, ret |-> OptRet(OptionStorage_None), calls |-> 0]

\* and_then(f) && / const&: f's own Option is the result.
Option_and_then(tr, this, ov, consume, fnone) ==
    IF this.init
    THEN [this |-> IF ov = "rvalue" /\ consume /\ ~tr
                   THEN [this EXCEPT !.slot = Moved] ELSE this,
          ret |-> OptRet(FO(this.slot, fnone)), calls |-> 1]
    ELSE [this |-> this, ret |-> OptRet(OptionStorage_None), calls |-> 0]

\* The zero-argument function the client passes to or_else.
FO0(d, fnone) == IF fnone THEN OptionStorage_None ELSE OptionStorage_Some(d)

\* An or_else() that calls the function whether or not this is present.
Option_or_else_Eager(tr, this, ov, d, fnone) ==
    [this |-> this, ret |-> OptRet(FO0(d, fnone)), calls |-> 1]

\* or_else(f) &&: this moved into the result, or f().
\* or_else(f) const&: the same on a copy of this.
Option_or_else(tr, this, ov, d, fnone) ==
    LET src == IF ov = "const" THEN OptionStorage_copy_ctor(tr, this) ELSE this
        m == OptionStorage_move_ctor(tr, src)
    IN  IF src.init
        THEN [this |-> IF ov = "const" THEN this ELSE m.other,
              ret |-> OptRet(m.this), calls |-> 0]
        ELSE [this |-> this, ret |-> OptRet(FO0(d, fnone)), calls |-> 1]

\* OptionStorage<Ref<T>>: one address; null encodes absence.
Null == "null"

\* The address of a temporary that is not one of the client's objects.
TmpAddr == "tmp"

\* OptionStorage<Ref<T>>(NoneTag)
RefStorage_None == [raw |-> Null]

\* OptionStorage<Ref<T>>(SomeTag, Ref<T>)
RefStorage_Some(addr) == [raw |-> addr]

\* OptionStorage<Ref<T>>::is_some()
RefStorage_is_some(s) == s.raw # Null

RefRet(s) == [kind |-> "ref", init |-> RefStorage_is_some(s), slot |-> s.raw]

VoidRet(b) == [kind |-> "void", init |-> b, slot |-> Dead]

\* An as_ref() that refers to a copy of the payload.
Option_as_ref_Copy(this, addr) ==
    IF this.init THEN RefStorage_Some(TmpAddr) ELSE RefStorage_None

\* as_ref() & / const&.  addr: where this Option's payload lives.
Option_as_ref(this, addr) ==
    IF this.init THEN RefStorage_Some(addr) ELSE RefStorage_None

\* Assignment through Ref<T>::get() / operator->: a store to the referent.
Ref_store(mem, addr, w) ==
    IF addr \in DOMAIN mem THEN [mem EXCEPT ![addr].slot = w] ELSE mem

\* operator<=>(other).  g: what reading other's slot yields when other holds
\* no live T (indeterminate bytes).
Option_cmp(this, other, g) ==
    LET left_is_some == this.init
        right_is_some == this.init
    IN  IF ~left_is_some /\ right_is_some THEN "less"
        ELSE IF left_is_some /\ ~right_is_some THEN "greater"
        ELSE IF ~left_is_some THEN "equivalent"
        ELSE Cmp3(this.slot, IF other.init THEN other.slot ELSE g)

-----------------------------------------------------------------------------
(* ResultStorage<T,E>, general two-slot representation.  E is a              *)
(* non-trivial type with a non-throwing move (std::string).                  *)

\* ResultStorage(OkTag, args...)
ResultStorage_Ok(v) == [init |-> TRUE, slot |-> v, err |-> Dead]

\* ResultStorage(ErrTag, args...)
ResultStorage_Err(e) == [init |-> FALSE, slot |-> Dead, err |-> e]

\* The OptionStorage<T> base subobject of a ResultStorage.
AsOption(r) == [init |-> r.init, slot |-> r.slot]

\* A swap that picks the relocation's source and destination by the
\* destination's prior kind.
ResultStorage_swap_WrongSlot(tr, this, other) ==
    LET this_ok == this.init
        other_ok == other.init
        sw == OptionStorage_swap(tr, AsOption(this), AsOption(other))
        t1 == [init |-> sw.this.init, slot |-> sw.this.slot, err |-> this.err]
        o1 == [init |-> sw.other.init, slot |-> sw.other.slot, err |-> other.err]
    IN  IF this_ok = other_ok
        THEN IF ~this_ok
             THEN [this |-> [t1 EXCEPT !.err = o1.err],
                   other |-> [o1 EXCEPT !.err = t1.err]]
             ELSE [this |-> t1, other |-> o1]
        ELSE IF ~this_ok
             THEN [this |-> [t1 EXCEPT !.err = o1.err],
                   other |-> [o1 EXCEPT !.err = Dead]]
             ELSE [this |-> [t1 EXCEPT !.err = Dead],
                   other |-> [o1 EXCEPT !.err = t1.err]]

\* swap(other): the pair (this after, other after).
ResultStorage_swap(tr, this, other) ==
    LET this_ok == this.init
        other_ok == other.init
        sw == OptionStorage_swap(tr, AsOption(this), AsOption(other))
        t1 == [init |-> sw.this.init, slot |-> sw.this.slot, err |-> this.err]
        o1 == [init |-> sw.other.init, slot |-> sw.other.slot, err |-> other.err]
    IN  IF this_ok = other_ok
        THEN IF ~this_ok
             THEN [this |-> [t1 EXCEPT !.err = o1.err],
                   other |-> [o1 EXCEPT !.err = t1.err]]
             ELSE [this |-> t1, other |-> o1]
        ELSE IF this_ok
             THEN \* error_src = other, error_dst = this
                  [this |-> [t1 EXCEPT !.err = o1.err],
                   other |-> [o1 EXCEPT !.err = Dead]]
             ELSE \* error_src = this, error_dst = other
                  [this |-> [t1 EXCEPT !.err = Dead],
                   other |-> [o1 EXCEPT !.err = t1.err]]

\* What a client can observe of a Result: its flag and the selected payload.
RView(r) == IF r.init THEN <<"ok", r.slot>> ELSE <<"err", r.err>>

-----------------------------------------------------------------------------
(* Result<T,E>, the value type *)

ResRet(r) == [kind |-> "res", init |-> r.init, slot |-> r.slot, err |-> r.err]

BoolRet(b) == [kind |-> "bool", init |-> b, slot |-> Dead]

\* is_ok(): the flag of the OptionStorage<T> base.
Result_is_ok(r) == r.init

\* An is_err() that forwards is_ok() without negating it.
Result_is_err_Same(r) == Result_is_ok(r)

\* is_err()
Result_is_err(r) == ~Result_is_ok(r)

\* unwrap() &, const&, &&: a reference to the ok payload, or a throw.
Result_unwrap(this, ov) ==
    IF Result_is_ok(this)
    THEN [ret |-> ValRet(this.slot), threw |-> FALSE]
    ELSE [ret |-> NoRet, threw |-> TRUE]

\* An unwrap_err() that reads the error slot without testing the flag.
Result_unwrap_err_Unchecked(this, ov) ==
    [ret |-> ValRet(this.err), threw |-> FALSE]

\* unwrap_err() &, const&, &&: a reference to the err payload, or a throw.
Result_unwrap_err(this, ov) ==
    IF Result_is_err(this)
    THEN [ret |-> ValRet(this.err), threw |-> FALSE]
    ELSE [ret |-> NoRet, threw |-> TRUE]

\* ok() && moves the ok payload into an Option<T>; ok() const& copies it.
Result_ok(tr, this, ov) ==
    IF Result_is_ok(this)
    THEN [this |-> IF ov = "rvalue" /\ ~tr THEN [this EXCEPT !.slot = Moved] ELSE this,
          ret |-> OptRet(OptionStorage_Some(this.slot))]
    ELSE [this |-> this, ret |-> OptRet(OptionStorage_None)]

\* An err() that selects its branch by is_ok().
Result_err_AsOk(this, ov) ==
    IF Result_is_ok(this)
    THEN [this |-> this, ret |-> OptRet(OptionStorage_Some(this.err))]
    ELSE [this |-> this, ret |-> OptRet(OptionStorage_None)]

\* err() && moves the err payload into an Option<E>; err() const& copies it.
Result_err(this, ov) ==
    IF Result_is_err(this)
    THEN [this |-> IF ov = "rvalue" THEN [this EXCEPT !.err = Moved] ELSE this,
          ret |-> OptRet(OptionStorage_Some(this.err))]
    ELSE [this |-> this, ret |-> OptRet(OptionStorage_None)]

\* map(f) &&, const&.  consume: f moves from the rvalue it receives.
Result_map(tr, this, ov, consume) ==
    IF Result_is_ok(this)
    THEN [this |-> IF ov = "rvalue" /\ consume /\ ~tr
                   THEN [this EXCEPT !.slot = Moved] ELSE this,
          ret |-> ResRet(ResultStorage_Ok(F(this.slot))), calls |-> 1]
    ELSE [this |-> IF ov = "rvalue" THEN [this EXCEPT !.err = Moved] ELSE this,
          ret |-> ResRet(ResultStorage_Err(this.err)), calls |-> 0]

\* A map_err(f) that applies f to whichever payload is selected.
Result_map_err_Both(tr, this, ov, consume) ==
    IF Result_is_ok(this)
    THEN [this |-> this, ret |-> ResRet(ResultStorage_Ok(F(this.slot))), calls |-> 1]
    ELSE [this |-> this, ret |-> ResRet(ResultStorage_Err(F(this.err))), calls |-> 1]

\* map_err(f) &&, const&
Result_map_err(tr, this, ov, consume) ==
    IF Result_is_ok(this)
    THEN [this |-> IF ov = "rvalue" /\ ~tr THEN [this EXCEPT !.slot = Moved] ELSE this,
          ret |-> ResRet(ResultStorage_Ok(this.slot)), calls |-> 0]
    ELSE [this |-> IF ov = "rvalue" /\ consume
                   THEN [this EXCEPT !.err = Moved] ELSE this,
          ret |-> ResRet(ResultStorage_Err(F(this.err))), calls |-> 1]

\* The Result-returning function the client passes to and_then.
\* ferr: the function answers Err.
FR(v, ferr) == IF ferr THEN ResultStorage_Err(v) ELSE ResultStorage_Ok(F(v))

\* An and_then() that wraps the function's value as Ok the way map does.
Result_and_then_Wrapping(tr, this, ov, consume, ferr) ==
    IF Result_is_ok(this)
    THEN [this |-> this, ret |-> ResRet(ResultStorage_Ok(F(this.slot))), calls |-> 1]
    ELSE [this |-> this, ret |-> ResRet(ResultStorage_Err(this.err)), calls |-> 0]

\* and_then(f) &&, const&
Result_and_then(tr, this, ov, consume, ferr) ==
    IF Result_is_ok(this)
    THEN [this |-> IF ov = "rvalue" /\ consume /\ ~tr
                   THEN [this EXCEPT !.slot = Moved] ELSE this,
          ret |-> ResRet(FR(this.slot, ferr)), calls |-> 1]
    ELSE [this |-> IF ov = "rvalue" THEN [this EXCEPT !.err = Moved] ELSE this,
          ret |-> ResRet(ResultStorage_Err(this.err)), calls |-> 0]

\* The Result-returning function the client passes to or_else.
FRE(e, ferr) == IF ferr THEN ResultStorage_Err(F(e)) ELSE ResultStorage_Ok(e)

\* or_else(f) &&, const&
Result_or_else(tr, this, ov, consume, ferr) ==
    IF Result_is_err(this)
    THEN [this |-> IF ov = "rvalue" /\ consume
                   THEN [this EXCEPT !.err = Moved] ELSE this,
          ret |-> ResRet(FRE(this.err, ferr)), calls |-> 1]
    ELSE [this |-> IF ov = "rvalue" /\ ~tr THEN [this EXCEPT !.slot = Moved] ELSE this,
          ret |-> ResRet(ResultStorage_Ok(this.slot)), calls |-> 0]

-----------------------------------------------------------------------------
(* The client of Option<T> *)

OpRec(n, x, y) == [NoOp EXCEPT !.name = n, !.x = x, !.y = y]

\* The Options an operation is allowed to modify (its non-const operands).
Touched(o) ==
    IF o.name \in {"unwrap", "cmp", "as_ref"} THEN {}
    ELSE IF o.ov = "const" THEN {}
    ELSE IF o.name \in {"copy_construct", "copy_assign"} THEN {o.y}
    ELSE {o.x, o.y}

NextOrigin(o) ==
    [n \in Names |->
        IF o.name = "construct_some" /\ n = o.x THEN o.arg
        ELSE IF n \in Touched(o) THEN 0
        ELSE origin[n]]

\* Bookkeeping shared by every Option operation except swap.
Log(o, r, c, t) ==
    /\ op' = o
    /\ ret' = r
    /\ calls' = c
    /\ threw' = t
    /\ pre' = opt
    /\ swapRun' = 0
    /\ swapBase' = opt
    /\ origin' = NextOrigin(o)
    /\ UNCHANGED <<trivialT, res, rpre, life, rlife, rf, same, iw, lay>>

\* Option<T> x = None;
ConstructNone(x) ==
    /\ opt' = [opt EXCEPT ![x] = OptionStorage_None]
    /\ Log(OpRec("construct_none", x, x), NoRet, 0, FALSE)

\* Option<T> x = {Some, v};
ConstructSome(x, v) ==
    /\ opt' = [opt EXCEPT ![x] = OptionStorage_Some(v)]
    /\ Log([OpRec("construct_some", x, x) EXCEPT !.arg = v], NoRet, 0, FALSE)

\* x = None;
AssignNone(x) ==
    /\ opt' = [opt EXCEPT ![x] = Option_assign_none(trivialT, opt[x])]
    /\ Log(OpRec("assign_none", x, x), NoRet, 0, FALSE)

\* x.take()
Take(x) ==
    LET r == Option_take(trivialT, opt[x])
    IN  /\ opt' = [opt EXCEPT ![x] = r.this]
        /\ Log(OpRec("take", x, x), OptRet(r.ret), 0, FALSE)

\* x.insert(v)
Insert(x, v, fail) ==
    LET r == Option_insert(trivialT, opt[x], v, fail)
    IN  /\ fail => ~trivialT
        /\ opt' = [opt EXCEPT ![x] = r.this]
        /\ Log([OpRec("insert", x, x) EXCEPT !.arg = v, !.fail = fail],
               r.ret, 0, r.threw)

\* x.swap(y)
Swap(x, y) ==
    LET r == OptionStorage_swap(trivialT, opt[x], opt[y])
        again == op.name = "swap" /\ op.x = x /\ op.y = y /\ swapRun = 1
    IN  /\ x # y
        /\ opt' = [opt EXCEPT ![x] = r.this, ![y] = r.other]
        /\ op' = OpRec("swap", x, y)
        /\ ret' = NoRet
        /\ calls' = 0
        /\ threw' = FALSE
        /\ pre' = opt
        /\ swapRun' = IF again THEN 2 ELSE 1
        /\ swapBase' = IF again THEN swapBase ELSE opt
        /\ origin' = NextOrigin(OpRec("swap", x, y))
        /\ UNCHANGED <<trivialT, res, rpre, life, rlife, rf, same, iw, lay>>

\* Option<T> y = x;
CopyConstruct(x, y) ==
    /\ x # y
    /\ opt' = [opt EXCEPT ![y] = OptionStorage_copy_ctor(trivialT, opt[x])]
    /\ Log(OpRec("copy_construct", x, y), NoRet, 0, FALSE)

\* Option<T> y = std::move(x);
MoveConstruct(x, y) ==
    LET r == OptionStorage_move_ctor(trivialT, opt[x])
    IN  /\ x # y
        /\ opt' = [opt EXCEPT ![y] = r.this, ![x] = r.other]
        /\ Log(OpRec("move_construct", x, y), NoRet, 0, FALSE)

\* y = x;
CopyAssign(x, y) ==
    /\ x # y
    /\ opt' = [opt EXCEPT ![y] = OptionStorage_copy_assign(trivialT, opt[y], opt[x])]
    /\ Log(OpRec("copy_assign", x, y), NoRet, 0, FALSE)

\* y = std::move(x);
MoveAssign(x, y) ==
    LET r == OptionStorage_move_assign(trivialT, opt[y], opt[x])
    IN  /\ x # y
        /\ opt' = [opt EXCEPT ![y] = r.this, ![x] = r.other]
        /\ Log(OpRec("move_assign", x, y), NoRet, 0, FALSE)

\* x.unwrap(), std::as_const(x).unwrap(), std::move(x).unwrap()
Unwrap(x, ov) ==
    LET r == Option_unwrap(opt[x], ov)
    IN  /\ UNCHANGED opt
        /\ Log([OpRec("unwrap", x, x) EXCEPT !.ov = ov], r.ret, 0, r.threw)

\* std::move(x).map(f)
MapRvalue(x, consume) ==
    LET r == Option_map_rvalue(trivialT, opt[x], consume)
    IN  /\ opt' = [opt EXCEPT ![x] = r.this]
        /\ Log([OpRec("map", x, x) EXCEPT !.ov = "rvalue", !.consume = consume],
               r.ret, r.calls, FALSE)

\* std::as_const(x).map(f)
MapConst(x) ==
    LET r == Option_map_const(opt[x])
    IN  /\ UNCHANGED opt
        /\ Log([OpRec("map", x, x) EXCEPT !.ov = "const"], r.ret, r.calls, FALSE)

\* x.as_ref(), std::as_const(x).as_ref()
AsRef(x, ov) ==
    /\ ov \in {"lvalue", "const"}
    /\ UNCHANGED opt
    /\ Log([OpRec("as_ref", x, x) EXCEPT !.ov = ov],
           RefRet(Option_as_ref(opt[x], x)), 0, FALSE)

\* x.as_ref().map([&](auto r) { *r = w; })
AsRefMap(x, w) ==
    LET r == Option_as_ref(opt[x], x)
    IN  /\ opt' = IF RefStorage_is_some(r) THEN Ref_store(opt, r.raw, w) ELSE opt
        /\ Log([OpRec("as_ref_map", x, x) EXCEPT !.arg = w],
               VoidRet(RefStorage_is_some(r)),
               IF RefStorage_is_some(r) THEN 1 ELSE 0, FALSE)

\* std::move(x).unwrap_or_default(), std::as_const(x).unwrap_or_default()
UnwrapOrDefault(x, ov) ==
    LET r == Option_unwrap_or_default(trivialT, opt[x], ov)
    IN  /\ ov \in {"rvalue", "const"}
        /\ opt' = [opt EXCEPT ![x] = r.this]
        /\ Log([OpRec("unwrap_or_default", x, x) EXCEPT !.ov = ov],
               r.ret, r.calls, FALSE)

\* std::move(x).unwrap_or(d), std::as_const(x).unwrap_or(d)
UnwrapOr(x, d, ov) ==
    LET r == Option_unwrap_or(trivialT, opt[x], d, ov)
    IN  /\ ov \in {"rvalue", "const"}
        /\ opt' = [opt EXCEPT ![x] = r.this]
        /\ Log([OpRec("unwrap_or", x, x) EXCEPT !.ov = ov, !.arg = d],
               r.ret, r.calls, FALSE)

\* std::move(x).unwrap_or_else([&] { return g; }), and through as_const
UnwrapOrElse(x, g, ov) ==
    LET r == Option_unwrap_or_else(trivialT, opt[x], g, ov)
    IN  /\ ov \in {"rvalue", "const"}
        /\ opt' = [opt EXCEPT ![x] = r.this]
        /\ Log([OpRec("unwrap_or_else", x, x) EXCEPT !.ov = ov, !.arg = g],
               r.ret, r.calls, FALSE)

\* std::move(x).and_then(f), std::as_const(x).and_then(f)
AndThen(x, ov, consume, fnone) ==
    LET r == Option_and_then(trivialT, opt[x], ov, consume, fnone)
    IN  /\ ov \in {"rvalue", "const"}
        /\ consume => ov = "rvalue"
        /\ opt' = [opt EXCEPT ![x] = r.this]
        /\ Log([OpRec("and_then", x, x) EXCEPT !.ov = ov, !.consume = consume,
                                               !.fnone = fnone],
               r.ret, r.calls, FALSE)

\* std::move(x).or_else(f), std::as_const(x).or_else(f)
OrElse(x, ov, d, fnone) ==
    LET r == Option_or_else(trivialT, opt[x], ov, d, fnone)
    IN  /\ ov \in {"rvalue", "const"}
        /\ opt' = [opt EXCEPT ![x] = r.this]
        /\ Log([OpRec("or_else", x, x) EXCEPT !.ov = ov, !.arg = d,
                                              !.fnone = fnone],
               r.ret, r.calls, FALSE)

\* x <=> y
Compare(x, y, g) ==
    /\ UNCHANGED opt
    /\ Log(OpRec("cmp", x, y),
           [kind |-> "ord", init |-> TRUE, slot |-> Option_cmp(opt[x], opt[y], g)],
           0, FALSE)

-----------------------------------------------------------------------------
(* The client of Result<T,E> *)

\* x.swap(y) on two Results
ResultSwap(x, y) ==
    LET r == ResultStorage_swap(trivialT, res[x], res[y])
        again == op.name = "rswap" /\ op.x = x /\ op.y = y /\ swapRun = 1
    IN  /\ x # y
        /\ res' = [res EXCEPT ![x] = r.this, ![y] = r.other]
        /\ op' = OpRec("rswap", x, y)
        /\ ret' = NoRet
        /\ calls' = 0
        /\ threw' = FALSE
        /\ rpre' = res
        /\ swapRun' = IF again THEN 2 ELSE 1
        /\ swapBase' = IF again THEN swapBase ELSE res
        /\ UNCHANGED <<trivialT, opt, pre, origin, life, rlife, rf, same, iw, lay>>

\* Bookkeeping of one Result operation.
RLog(o, r, c, t) ==
    /\ op' = o
    /\ ret' = r
    /\ calls' = c
    /\ threw' = t
    /\ rpre' = res
    /\ swapRun' = 0
    /\ swapBase' = res
    /\ UNCHANGED <<trivialT, opt, pre, origin, life, rlife, rf, same, iw, lay>>

\* x = Result<T,E>{Ok, v}
ConstructOk(x, v) ==
    /\ res' = [res EXCEPT ![x] = ResultStorage_Ok(v)]
    /\ RLog([OpRec("r_ok_ctor", x, x) EXCEPT !.arg = v], NoRet, 0, FALSE)

\* x = Result<T,E>{Err, e}
ConstructErr(x, e) ==
    /\ res' = [res EXCEPT ![x] = ResultStorage_Err(e)]
    /\ RLog([OpRec("r_err_ctor", x, x) EXCEPT !.arg = e], NoRet, 0, FALSE)

\* x.is_ok()
IsOk(x) ==
    /\ res' = res
    /\ RLog(OpRec("is_ok", x, x), BoolRet(Result_is_ok(res[x])), 0, FALSE)

\* x.is_err()
IsErr(x) ==
    /\ res' = res
    /\ RLog(OpRec("is_err", x, x), BoolRet(Result_is_err(res[x])), 0, FALSE)

\* x.unwrap()
ResultUnwrap(x, ov) ==
    LET r == Result_unwrap(res[x], ov)
    IN  /\ res' = res
        /\ RLog([OpRec("r_unwrap", x, x) EXCEPT !.ov = ov], r.ret, 0, r.threw)

\* x.unwrap_err()
ResultUnwrapErr(x, ov) ==
    LET r == Result_unwrap_err(res[x], ov)
    IN  /\ res' = res
        /\ RLog([OpRec("r_unwrap_err", x, x) EXCEPT !.ov = ov], r.ret, 0, r.threw)

\* std::move(x).ok(), std::as_const(x).ok()
ResultOk(x, ov) ==
    LET r == Result_ok(trivialT, res[x], ov)
    IN  /\ ov \in {"rvalue", "const"}
        /\ res' = [res EXCEPT ![x] = r.this]
        /\ RLog([OpRec("r_ok", x, x) EXCEPT !.ov = ov], r.ret, 0, FALSE)

\* std::move(x).err(), std::as_const(x).err()
ResultErr(x, ov) ==
    LET r == Result_err(res[x], ov)
    IN  /\ ov \in {"rvalue", "const"}
        /\ res' = [res EXCEPT ![x] = r.this]
        /\ RLog([OpRec("r_err", x, x) EXCEPT !.ov = ov], r.ret, 0, FALSE)

\* std::move(x).map(f), std::as_const(x).map(f)
ResultMap(x, ov, consume) ==
    LET r == Result_map(trivialT, res[x], ov, consume)
    IN  /\ ov \in {"rvalue", "const"}
        /\ consume => ov = "rvalue"
        /\ res' = [res EXCEPT ![x] = r.this]
        /\ RLog([OpRec("r_map", x, x) EXCEPT !.ov = ov, !.consume = consume],
                r.ret, r.calls, FALSE)

\* std::move(x).map_err(f), std::as_const(x).map_err(f)
ResultMapErr(x, ov, consume) ==
    LET r == Result_map_err(trivialT, res[x], ov, consume)
    IN  /\ ov \in {"rvalue", "const"}
        /\ consume => ov = "rvalue"
        /\ res' = [res EXCEPT ![x] = r.this]
        /\ RLog([OpRec("r_map_err", x, x) EXCEPT !.ov = ov, !.consume = consume],
                r.ret, r.calls, FALSE)

\* std::move(x).and_then(f), std::as_const(x).and_then(f)
ResultAndThen(x, ov, consume, ferr) ==
    LET r == Result_and_then(trivialT, res[x], ov, consume, ferr)
    IN  /\ ov \in {"rvalue", "const"}
        /\ consume => ov = "rvalue"
        /\ res' = [res EXCEPT ![x] = r.this]
        /\ RLog([OpRec("r_and_then", x, x) EXCEPT !.ov = ov, !.consume = consume,
                                                  !.fnone = ferr],
                r.ret, r.calls, FALSE)

\* std::move(x).or_else(f), std::as_const(x).or_else(f)
ResultOrElse(x, ov, consume, ferr) ==
    LET r == Result_or_else(trivialT, res[x], ov, consume, ferr)
    IN  /\ ov \in {"rvalue", "const"}
        /\ consume => ov = "rvalue"
        /\ res' = [res EXCEPT ![x] = r.this]
        /\ RLog([OpRec("r_or_else", x, x) EXCEPT !.ov = ov, !.consume = consume,
                                                 !.fnone = ferr],
                r.ret, r.calls, FALSE)

-----------------------------------------------------------------------------
(* Payload lifetimes in OptionStorage<T>, T not trivially destructible.      *)
(* Every T that is constructed gets an identity; heap is the set of Ts that  *)
(* have been constructed and not yet destroyed.  A slot holds the identity   *)
(* of the object built in it, or Dead.                                       *)

MaxObj == 6

\* The most T constructions one operation performs (insert: three).
MaxSteps == 3

\* The named containers and the temporaries of take / insert / operator=.
Objs == Names \cup {"tmp", "ret"}

\* fuel = k > 0: the k-th T constructor call from now on throws.
\* threw: an exception is propagating; only destructors run.
NoLife == [c |-> [o \in Objs |-> OptionStorage_None], alive |-> {}, heap |-> {},
           preHeap |-> {}, bad |-> FALSE, last |-> "init", fuel |-> 0,
           threw |-> FALSE]

\* Identities no slot refers to and no live object carries.
FreeIds(m) == {i \in 1..MaxObj : i \notin m.heap /\ \A o \in DOMAIN m.c : m.c[o].slot # i}

FreshId(m) == CHOOSE i \in FreeIds(m) : \A k \in FreeIds(m) : i <= k

\* OptionStorage(SomeTag, args...) at o: a T is built in the slot, then the
\* flag is set.  When T's constructor throws the flag is never written.
Life_Some(m, o) ==
    IF m.threw THEN m
    ELSE IF m.fuel = 1 THEN [m EXCEPT !.threw = TRUE, !.fuel = 0]
    ELSE LET i == FreshId(m)
         IN  [m EXCEPT !.c[o] = [init |-> TRUE, slot |-> i],
                       !.heap = @ \cup {i},
                       !.fuel = IF @ > 0 THEN @ - 1 ELSE 0]

\* OptionStorage(NoneTag) at o
Life_None(m, o) == IF m.threw THEN m ELSE [m EXCEPT !.c[o] = OptionStorage_None]

\* A reset() that runs the destructor and leaves the flag set.
Life_reset_KeepFlag(m, o) ==
    IF m.threw THEN m
    ELSE IF m.c[o].init
    THEN [m EXCEPT !.c[o].slot = Dead,
                   !.heap = @ \ {m.c[o].slot},
                   !.bad = @ \/ m.c[o].slot \notin m.heap]
    ELSE m

\* reset(): ~T() on the slot when the flag is set, then flag false.
Life_reset(m, o) ==
    IF m.threw THEN m
    ELSE IF m.c[o].init
    THEN [m EXCEPT !.c[o] = OptionStorage_None,
                   !.heap = @ \ {m.c[o].slot},
                   !.bad = @ \/ m.c[o].slot \notin m.heap]
    ELSE [m EXCEPT !.c[o].init = FALSE]

\* ~OptionStorage(): reset(); it also runs while an exception unwinds.
Life_dtor(m, o) ==
    [Life_reset([m EXCEPT !.threw = FALSE], o) EXCEPT !.threw = m.threw]

\* OptionStorage(const OptionStorage& other) at dst
Life_copy_ctor(m, dst, other) ==
    IF m.c[other].init THEN Life_Some(Life_None(m, dst), dst) ELSE Life_None(m, dst)

\* A move constructor that copies the bytes of other, slot and flag.
Life_move_ctor_Bytewise(m, dst, other) ==
    IF m.threw THEN m ELSE [m EXCEPT !.c[dst] = m.c[other]]

\* OptionStorage(OptionStorage&& other) at dst: a new T is move-constructed;
\* the moved-from T in other stays alive and other keeps its flag.
Life_move_ctor(m, dst, other) ==
    IF m.c[other].init THEN Life_Some(Life_None(m, dst), dst) ELSE Life_None(m, dst)

\* swap(other): std::swap leaves both objects in place; otherwise a T is
\* built in the empty side and the donor is reset.
Life_swap(m, this, other) ==
    IF m.threw THEN m
    ELSE IF m.c[other].init /\ m.c[this].init THEN m
    ELSE IF m.c[other].init THEN Life_reset(Life_Some(m, this), other)
    ELSE IF m.c[this].init THEN Life_reset(Life_Some(m, other), this)
    ELSE m

\* operator=(const OptionStorage& other): tmp(other); swap(tmp); ~tmp
Life_copy_assign(m, this, other) ==
    Life_dtor(Life_swap(Life_copy_ctor(m, "tmp", other), this, "tmp"), "tmp")

\* operator=(OptionStorage&& other): tmp(move(other)); swap(tmp); ~tmp
Life_move_assign(m, this, other) ==
    Life_dtor(Life_swap(Life_move_ctor(m, "tmp", other), this, "tmp"), "tmp")

\* return tmp; the result is move-constructed, tmp is destroyed, and the
\* caller's temporary is destroyed at the end of the full expression.
Life_return_tmp(m) ==
    Life_dtor(Life_dtor(Life_move_ctor(m, "ret", "tmp"), "tmp"), "ret")

\* take()
Life_take(m, this) ==
    Life_return_tmp(Life_swap(Life_None(m, "tmp"), this, "tmp"))

\* insert(args...)
Life_insert(m, this) ==
    Life_return_tmp(Life_swap(Life_Some(m, "tmp"), this, "tmp"))

\* The machine at the start of a call in which the failAt-th T constructor
\* throws (0: none does).
Armed(failAt) == [life EXCEPT !.fuel = failAt, !.threw = FALSE]

\* A container under construction exists only if its constructor returned.
Born(m, x) == IF m.threw THEN m ELSE [m EXCEPT !.alive = @ \cup {x}]

\* One call of the client.  A call is listed with failAt > 0 only when that
\* constructor call is reached, and only while identities are left to name
\* the objects it builds.
LifeStep(name, m, failAt) ==
    /\ Cardinality(FreeIds(life)) >= MaxSteps
    /\ failAt > 0 => m.threw
    /\ life' = [m EXCEPT !.preHeap = life.heap, !.last = name, !.fuel = 0]
    /\ UNCHANGED <<trivialT, opt, res, op, ret, calls, threw, pre, rpre,
                   swapRun, swapBase, origin, rlife, rf, same, iw, lay>>

\* Option<T> x = None;
LConstructNone(x) ==
    /\ x \notin life.alive
    /\ LifeStep("construct_none", Born(Life_None(Armed(0), x), x), 0)

\* Option<T> x = {Some, args...};
LConstructSome(x, failAt) ==
    /\ x \notin life.alive
    /\ LifeStep("construct_some", Born(Life_Some(Armed(failAt), x), x), failAt)

\* Option<T> y = x;
LCopyConstruct(x, y, failAt) ==
    /\ x \in life.alive /\ y \notin life.alive
    /\ LifeStep("copy_construct", Born(Life_copy_ctor(Armed(failAt), y, x), y), failAt)

\* Option<T> y = std::move(x);
LMoveConstruct(x, y, failAt) ==
    /\ x \in life.alive /\ y \notin life.alive
    /\ LifeStep("move_construct", Born(Life_move_ctor(Armed(failAt), y, x), y), failAt)

\* y = x;
LCopyAssign(x, y, failAt) ==
    /\ x \in life.alive /\ y \in life.alive /\ x # y
    /\ LifeStep("copy_assign", Life_copy_assign(Armed(failAt), y, x), failAt)

\* y = std::move(x);
LMoveAssign(x, y, failAt) ==
    /\ x \in life.alive /\ y \in life.alive /\ x # y
    /\ LifeStep("move_assign", Life_move_assign(Armed(failAt), y, x), failAt)

\* x = None;
LAssignNone(x, failAt) ==
    /\ x \in life.alive
    /\ LifeStep("assign_none", Life_take(Armed(failAt), x), failAt)

\* x.swap(y)
LSwap(x, y, failAt) ==
    /\ x \in life.alive /\ y \in life.alive /\ x # y
    /\ LifeStep("swap", Life_swap(Armed(failAt), x, y), failAt)

\* x.take()
LTake(x, failAt) ==
    /\ x \in life.alive
    /\ LifeStep("take", Life_take(Armed(failAt), x), failAt)

\* x.insert(args...)
LInsert(x, failAt) ==
    /\ x \in life.alive
    /\ LifeStep("insert", Life_insert(Armed(failAt), x), failAt)

\* x goes out of scope
LDestroy(x) ==
    /\ x \in life.alive
    /\ LifeStep("destroy", [Life_dtor(Armed(0), x) EXCEPT !.alive = @ \ {x}], 0)

-----------------------------------------------------------------------------
(* Payload lifetimes in ResultStorage<T,E>, E not trivially destructible.    *)
(* T is trivial (int) or not, as trivialT says.  The T and E objects share   *)
(* one heap of identities; a trivial T is plain bytes and is not tracked.    *)

\* The slot of a trivially copyable T that has been written.
PlainT == 0

RawResult == [init |-> FALSE, slot |-> Dead, err |-> Dead]

NoRLife == [c |-> [o \in Names \cup {"tmp"} |-> RawResult], alive |-> {},
            heap |-> {}, bad |-> FALSE, last |-> "init", x |-> "a", y |-> "a",
            fuel |-> 0, threw |-> FALSE]

RFreeIds(m) ==
    {i \in 1..MaxObj : i \notin m.heap
                       /\ \A o \in DOMAIN m.c : m.c[o].slot # i /\ m.c[o].err # i}

RFreshId(m) == CHOOSE i \in RFreeIds(m) : \A k \in RFreeIds(m) : i <= k

\* OptionStorage<T>{Some, args...} in the base of o.
RLife_build_T(tr, m, o) ==
    IF m.threw THEN m
    ELSE IF tr THEN [m EXCEPT !.c[o].init = TRUE, !.c[o].slot = PlainT]
    ELSE IF m.fuel = 1 THEN [m EXCEPT !.threw = TRUE, !.fuel = 0]
    ELSE LET i == RFreshId(m)
         IN  [m EXCEPT !.c[o].init = TRUE, !.c[o].slot = i,
                       !.heap = @ \cup {i},
                       !.fuel = IF @ > 0 THEN @ - 1 ELSE 0]

\* new (as_err_storage().get_bytes()) E{...} in o.
RLife_build_E(m, o) ==
    IF m.threw THEN m
    ELSE IF m.fuel = 1 THEN [m EXCEPT !.threw = TRUE, !.fuel = 0]
    ELSE LET i == RFreshId(m)
         IN  [m EXCEPT !.c[o].err = i,
                       !.heap = @ \cup {i},
                       !.fuel = IF @ > 0 THEN @ - 1 ELSE 0]

\* unwrap_err_unsafe().~E() on o.
RLife_destroy_E(m, o) ==
    IF m.threw THEN m
    ELSE [m EXCEPT !.c[o].err = Dead,
                   !.heap = @ \ {m.c[o].err},
                   !.bad = @ \/ m.c[o].err \notin m.heap]

\* OptionStorage<T>::reset() on the base of o.
RLife_reset_T(tr, m, o) ==
    IF m.threw THEN m
    ELSE IF ~tr /\ m.c[o].init
    THEN [m EXCEPT !.c[o].init = FALSE, !.c[o].slot = Dead,
                   !.heap = @ \ {m.c[o].slot},
                   !.bad = @ \/ m.c[o].slot \notin m.heap]
    ELSE [m EXCEPT !.c[o].init = FALSE]

\* ResultStorage(OkTag, args...) at o
RLife_Ok(tr, m, o) == RLife_build_T(tr, m, o)

\* ResultStorage(ErrTag, args...) at o: OptionStorage<T>{None}, then the E.
RLife_Err(m, o) ==
    IF m.threw THEN m ELSE RLife_build_E([m EXCEPT !.c[o].init = FALSE], o)

\* ~ResultStorage(): ~E() when the flag says err, then ~OptionStorage<T>().
\* It also runs while an exception unwinds.
RLife_dtor(tr, m, o) ==
    LET m0 == [m EXCEPT !.threw = FALSE]
        m1 == IF ~m0.c[o].init THEN RLife_destroy_E(m0, o) ELSE m0
    IN  [RLife_reset_T(tr, m1, o) EXCEPT !.threw = m.threw]

\* ResultStorage(const ResultStorage& other) at dst: defaulted when T is
\* trivially copy constructible, which copies the bytes of both bases.
RLife_copy_ctor(tr, m, dst, other) ==
    IF m.threw THEN m
    ELSE IF tr THEN [m EXCEPT !.c[dst] = m.c[other]]
    ELSE IF m.c[other].init THEN RLife_Ok(tr, [m EXCEPT !.c[dst] = RawResult], dst)
    ELSE RLife_Err([m EXCEPT !.c[dst] = RawResult], dst)

\* ResultStorage(ResultStorage&& other) at dst: defaulted when T is trivially
\* move constructible; otherwise the payload is move-constructed and other
\* keeps its flag and its moved-from payload.
RLife_move_ctor(tr, m, dst, other) ==
    IF m.threw THEN m
    ELSE IF tr THEN [m EXCEPT !.c[dst] = m.c[other]]
    ELSE IF m.c[other].init THEN RLife_Ok(tr, [m EXCEPT !.c[dst] = RawResult], dst)
    ELSE RLife_Err([m EXCEPT !.c[dst] = RawResult], dst)

\* OptionStorage<T>::swap on the bases of this and other.
RLife_swap_T(tr, m, this, other) ==
    IF m.threw THEN m
    ELSE IF tr
    THEN [m EXCEPT !.c[this].init = m.c[other].init, !.c[this].slot = m.c[other].slot,
                   !.c[other].init = m.c[this].init, !.c[other].slot = m.c[this].slot]
    ELSE IF m.c[other].init /\ m.c[this].init THEN m
    ELSE IF m.c[other].init
    THEN RLife_reset_T(tr, RLife_build_T(tr, m, this), other)
    ELSE IF m.c[this].init
    THEN RLife_reset_T(tr, RLife_build_T(tr, m, other), this)
    ELSE m

\* swap(other): the bases are swapped first; in the mixed case the E is then
\* move-constructed in the side that became err and destroyed in the donor.
RLife_swap(tr, m, this, other) ==
    LET this_ok == m.c[this].init
        other_ok == m.c[other].init
        m1 == RLife_swap_T(tr, m, this, other)
        error_src == IF this_ok THEN other ELSE this
        error_dst == IF this_ok THEN this ELSE other
    IN  IF this_ok = other_ok THEN m1
        ELSE RLife_destroy_E(RLife_build_E(m1, error_dst), error_src)

\* operator=(const ResultStorage& other): defaulted when T is trivially copy
\* assignable; otherwise tmp(other); swap(tmp); ~tmp.
RLife_copy_assign(tr, m, this, other) ==
    IF tr THEN [m EXCEPT !.c[this] = m.c[other]]
    ELSE RLife_dtor(tr, RLife_swap(tr, RLife_copy_ctor(tr, m, "tmp", other),
                                   this, "tmp"), "tmp")

\* operator=(ResultStorage&& other)
RLife_move_assign(tr, m, this, other) ==
    IF tr THEN [m EXCEPT !.c[this] = m.c[other]]
    ELSE RLife_dtor(tr, RLife_swap(tr, RLife_move_ctor(tr, m, "tmp", other),
                                   this, "tmp"), "tmp")

RArmed(failAt) == [rlife EXCEPT !.fuel = failAt, !.threw = FALSE]

RBorn(m, x) == IF m.threw THEN [m EXCEPT !.c[x] = RawResult]
               ELSE [m EXCEPT !.alive = @ \cup {x}]

\* One call of the client on Results x (source) and y (target).
RLifeStep(name, x, y, m, failAt) ==
    /\ Cardinality(RFreeIds(rlife)) >= MaxSteps
    /\ failAt > 0 => m.threw
    /\ rlife' = [m EXCEPT !.last = name, !.x = x, !.y = y, !.fuel = 0]
    /\ UNCHANGED <<trivialT, opt, res, op, ret, calls, threw, pre, rpre,
                   swapRun, swapBase, origin, life, rf, same, iw, lay>>

\* Result<T,E> x{Ok, args...};
RLConstructOk(x, failAt) ==
    /\ x \notin rlife.alive
    /\ RLifeStep("construct_ok", x, x, RBorn(RLife_Ok(trivialT, RArmed(failAt), x), x),
                 failAt)

\* Result<T,E> x{Err, args...};
RLConstructErr(x, failAt) ==
    /\ x \notin rlife.alive
    /\ RLifeStep("construct_err", x, x, RBorn(RLife_Err(RArmed(failAt), x), x), failAt)

\* Result<T,E> y = x;
RLCopyConstruct(x, y, failAt) ==
    /\ x \in rlife.alive /\ y \notin rlife.alive
    /\ RLifeStep("copy_construct", x, y,
                 RBorn(RLife_copy_ctor(trivialT, RArmed(failAt), y, x), y), failAt)

\* Result<T,E> y = std::move(x);
RLMoveConstruct(x, y, failAt) ==
    /\ x \in rlife.alive /\ y \notin rlife.alive
    /\ RLifeStep("move_construct", x, y,
                 RBorn(RLife_move_ctor(trivialT, RArmed(failAt), y, x), y), failAt)

\* y = x;
RLCopyAssign(x, y, failAt) ==
    /\ x \in rlife.alive /\ y \in rlife.alive /\ x # y
    /\ RLifeStep("copy_assign", x, y,
                 RLife_copy_assign(trivialT, RArmed(failAt), y, x), failAt)

\* y = std::move(x);
RLMoveAssign(x, y, failAt) ==
    /\ x \in rlife.alive /\ y \in rlife.alive /\ x # y
    /\ RLifeStep("move_assign", x, y,
                 RLife_move_assign(trivialT, RArmed(failAt), y, x), failAt)

\* x.swap(y)
RLSwap(x, y, failAt) ==
    /\ x \in rlife.alive /\ y \in rlife.alive /\ x # y
    /\ RLifeStep("swap", x, y, RLife_swap(trivialT, RArmed(failAt), x, y), failAt)

\* x goes out of scope
RLDestroy(x) ==
    /\ x \in rlife.alive
    /\ RLifeStep("destroy", x, x,
                 [RLife_dtor(trivialT, RArmed(0), x) EXCEPT !.alive = @ \ {x}], 0)

-----------------------------------------------------------------------------
(* Option<Ref<T>>: the reference representation and its client.  Two         *)
(* referents live at the addresses "world" and "hello".                      *)

Addrs == {"world", "hello"}

\* Ref<T>(T& x): the address of x.
Ref_ctor(addr) == addr

\* Ref<T>::get()
Ref_get(mem, ptr) == mem[ptr]

\* A swap that overwrites this with other and leaves other as it was.
RefStorage_swap_OneWay(this, other) == [this |-> other, other |-> other]

\* OptionStorage<Ref<T>>::swap: std::swap of the two unions.
RefStorage_swap(this, other) == [this |-> other, other |-> this]

\* OptionStorage<Ref<T>>::unwrap_unsafe(): the Ref member of the union.
RefStorage_unwrap_unsafe(s) == s.raw

\* Option<Ref<T>>::take()
RefOption_take(this) ==
    LET sw == RefStorage_swap(this, RefStorage_None)
    IN  [this |-> sw.this, ret |-> sw.other]

\* Option<Ref<T>>::insert(ref)
RefOption_insert(this, ref) ==
    LET sw == RefStorage_swap(this, RefStorage_Some(ref))
    IN  [this |-> sw.this, ret |-> sw.other]

\* Option<Ref<T>>::unwrap()
RefOption_unwrap(this) ==
    IF RefStorage_is_some(this)
    THEN [ret |-> RefStorage_unwrap_unsafe(this), threw |-> FALSE]
    ELSE [ret |-> Null, threw |-> TRUE]

\* An assignment with the meaning of a built-in reference: the value of the
\* new referent is stored into the old one and the address stays.
Ref_assign_Through(mem, this, ref) ==
    [this |-> this, mem |-> [mem EXCEPT ![this.raw] = mem[ref]]]

\* as_ref().map([&](Ref<T>& r) { r = Ref{x}; }) on a present Option<Ref<T>>:
\* the defaulted Ref::operator= copies _ptr into the Ref inside the Option.
Ref_assign(mem, this, ref) == [this |-> [raw |-> ref], mem |-> mem]

\* map(f) const with f(const T&): f reads the referent through the Ref.
RefOption_map_read(mem, this) ==
    IF RefStorage_is_some(this)
    THEN [ret |-> Ref_get(mem, RefStorage_unwrap_unsafe(this)), calls |-> 1]
    ELSE [ret |-> Dead, calls |-> 0]

NoChain == [stage |-> 0, x |-> "a", new |-> Null, old |-> Null, oldval |-> 0, w |-> 0]

NoRf == [o |-> [n \in Names |-> RefStorage_None], mem |-> [a \in Addrs |-> 1],
         pre |-> [n \in Names |-> RefStorage_None], premem |-> [a \in Addrs |-> 1],
         last |-> "init", x |-> "a", y |-> "a", arg |-> Null, ret |-> Null,
         threw |-> FALSE, chain |-> NoChain]

\* Bookkeeping of one call: the operands, the result, the state before, and
\* how far the scenario rebind / mutate the new referent / read has come.
RfStep(name, x, y, arg, o, mem, r, t) ==
    LET rebound == name = "rebind" /\ RefStorage_is_some(rf.o[x])
                       /\ rf.o[x].raw # arg
        c == rf.chain
        ch == IF rebound
              THEN [stage |-> 1, x |-> x, new |-> arg, old |-> rf.o[x].raw,
                    oldval |-> rf.mem[rf.o[x].raw], w |-> 0]
              ELSE IF name = "store" /\ c.stage = 1 /\ arg = c.new
              THEN [c EXCEPT !.stage = 2, !.w = mem[arg]]
              ELSE IF name = "read" /\ c.stage = 2 /\ x = c.x
              THEN [c EXCEPT !.stage = 3]
              ELSE NoChain
    IN  /\ rf' = [o |-> o, mem |-> mem, pre |-> rf.o, premem |-> rf.mem,
                  last |-> name, x |-> x, y |-> y, arg |-> arg, ret |-> r,
                  threw |-> t, chain |-> ch]
        /\ UNCHANGED <<trivialT, opt, res, op, ret, calls, threw, pre, rpre,
                       swapRun, swapBase, origin, life, rlife, same, iw, lay>>

\* Option<Ref<T>> x = None;
RfConstructNone(x) ==
    RfStep("construct_none", x, x, Null, [rf.o EXCEPT ![x] = RefStorage_None],
           rf.mem, Null, FALSE)

\* Option<Ref<T>> x = {Some, Ref{a}};
RfConstructSome(x, a) ==
    RfStep("construct_some", x, x, a,
           [rf.o EXCEPT ![x] = RefStorage_Some(Ref_ctor(a))], rf.mem, Null, FALSE)

\* x.swap(y)
RfSwap(x, y) ==
    LET r == RefStorage_swap(rf.o[x], rf.o[y])
    IN  /\ x # y
        /\ RfStep("swap", x, y, Null, [rf.o EXCEPT ![x] = r.this, ![y] = r.other],
                  rf.mem, Null, FALSE)

\* x.take()
RfTake(x) ==
    LET r == RefOption_take(rf.o[x])
    IN  RfStep("take", x, x, Null, [rf.o EXCEPT ![x] = r.this], rf.mem,
               r.ret.raw, FALSE)

\* x.insert(Ref{a})
RfInsert(x, a) ==
    LET r == RefOption_insert(rf.o[x], Ref_ctor(a))
    IN  RfStep("insert", x, x, a, [rf.o EXCEPT ![x] = r.this], rf.mem,
               r.ret.raw, FALSE)

\* y = x;  the implicit copy of the union copies the address.
RfCopy(x, y) ==
    /\ x # y
    /\ RfStep("copy", x, y, Null, [rf.o EXCEPT ![y] = [raw |-> rf.o[x].raw]],
              rf.mem, Null, FALSE)

\* x.unwrap()
RfUnwrap(x) ==
    LET r == RefOption_unwrap(rf.o[x])
    IN  RfStep("unwrap", x, x, Null, rf.o, rf.mem, r.ret, r.threw)

\* x.as_ref().map([&](Ref<T>& r) { r = Ref{a}; });
RfRebind(x, a) ==
    LET r == Ref_assign(rf.mem, rf.o[x], Ref_ctor(a))
    IN  IF RefStorage_is_some(rf.o[x])
        THEN RfStep("rebind", x, x, a, [rf.o EXCEPT ![x] = r.this], r.mem, Null, FALSE)
        ELSE RfStep("rebind", x, x, a, rf.o, rf.mem, Null, FALSE)

\* the referent at a is assigned w by its owner (hello = "HI")
RfStore(a, w) ==
    /\ rf.mem[a] # w
    /\ RfStep("store", "a", "a", a, rf.o, [rf.mem EXCEPT ![a] = w], Null, FALSE)

\* x.map([](const T& s) { ... }): s is what the Option refers to now.
RfRead(x) ==
    RfStep("read", x, x, Null, rf.o, rf.mem, RefOption_map_read(rf.mem, rf.o[x]).ret,
           FALSE)

-----------------------------------------------------------------------------
(* Specifications *)

OptionStates == {OptionStorage_None} \cup {OptionStorage_Some(v) : v \in Values}

(* invoke_with, Void and Option<Void> *)

\* The one value of better::Void.
VoidV == -2

\* The callables a client passes to map: how many arguments they take, what
\* they return (void, a value, an lvalue reference), and for a reference the
\* object it refers to.
Fns == [arity : {0, 1}, ret : {"void", "value", "lref"}, target : Addrs]

\* What a zero-argument value-returning callable returns.
F0 == 1

\* IsInvocableWith<F, Arg>: for a Void argument, whether F can be called
\* with no arguments at all.
IsInvocableWith(f, arg) == IF arg = VoidV THEN f.arity = 0 ELSE f.arity = 1

\* detail::wrap_references<R>: a reference result becomes a Ref to the
\* object it refers to, a value result is passed on.
wrap_references(f, v) ==
    IF f.ret = "lref"
    THEN [kind |-> "ref", val |-> Dead, addr |-> Ref_ctor(f.target)]
    ELSE [kind |-> "val", val |-> v, addr |-> Null]

\* An invoke_with that hands a Void argument on to the callable.
invoke_with_PassesVoid(f, arg) ==
    LET v == IF f.arity = 0 THEN F0 ELSE F(arg)
    IN  [nargs |-> 1,
         r |-> IF f.ret = "void"
               THEN [kind |-> "void", val |-> VoidV, addr |-> Null]
               ELSE wrap_references(f, v)]

\* invoke_with(f, args...) and invoke_with(f, Void): nargs is the number of
\* arguments f is called with, r what invoke_with returns.
invoke_with(f, arg) ==
    LET nargs == IF arg = VoidV THEN 0 ELSE 1
        v == IF nargs = 0 THEN F0 ELSE F(arg)
    IN  [nargs |-> nargs,
         r |-> IF f.ret = "void"
               THEN [kind |-> "void", val |-> VoidV, addr |-> Null]
               ELSE wrap_references(f, v)]

\* OptionStorage<T> of an empty trivial T: a flag next to an empty base.
EmptyStorage_None == [is_some |-> FALSE]

EmptyStorage_Some == [is_some |-> TRUE]

EmptyStorage_is_some(s) == s.is_some

EmptyStorage_unwrap_unsafe(s) == VoidV

\* Option<R>{Some, r} for the R that invoke_with returned.
SomeOf(r) ==
    IF r.kind = "void" THEN VoidRet(EmptyStorage_is_some(EmptyStorage_Some))
    ELSE IF r.kind = "ref" THEN RefRet(RefStorage_Some(r.addr))
    ELSE OptRet(OptionStorage_Some(r.val))

\* Option<R>{None} for the R of the callable f.
NoneOf(f) ==
    IF f.ret = "void" THEN VoidRet(EmptyStorage_is_some(EmptyStorage_None))
    ELSE IF f.ret = "lref" THEN RefRet(RefStorage_None)
    ELSE OptRet(OptionStorage_None)

\* Option<T>::map(f): is_some() ? OptT{Some, invoke_with(f, payload)}
\*                              : OptT{None}
Option_map_with(present, payload, f) ==
    IF present
    THEN LET i == invoke_with(f, payload)
         IN  [ret |-> SomeOf(i.r), calls |-> 1, nargs |-> i.nargs]
    ELSE [ret |-> NoneOf(f), calls |-> 0, nargs |-> 0]

\* The client of map: src is an Option<T>, v an Option<Void>; psrc and pv
\* are their states before the last operation.
NoIw ==
    [src |-> OptionStorage_None, v |-> EmptyStorage_None,
     psrc |-> OptionStorage_None, pv |-> EmptyStorage_None,
     last |-> "init", f |-> [arity |-> 1, ret |-> "value", target |-> "world"],
     ret |-> NoRet, calls |-> 0, nargs |-> 0]

IwStep(name, f, src, v, r) ==
    /\ iw' = [src |-> src, v |-> v, psrc |-> iw.src, pv |-> iw.v,
              last |-> name, f |-> f, ret |-> r.ret, calls |-> r.calls,
              nargs |-> r.nargs]
    /\ UNCHANGED <<trivialT, opt, res, op, ret, calls, threw, pre, rpre,
                   swapRun, swapBase, origin, life, rlife, rf, same, lay>>

NoCall == [ret |-> NoRet, calls |-> 0, nargs |-> 0]

\* Option<T> src = None;  Option<T> src{Some, val};
IwConstruct(s) == IwStep("construct", iw.f, s, iw.v, NoCall)

\* Option<Void> v = None;  Option<Void> v{Some, Void{}};
IwConstructVoid(s) == IwStep("construct_void", iw.f, iw.src, s, NoCall)

\* auto r = src.as_ref().map(f) / std::as_const(src).map(f); a void f makes
\* r an Option<Void>, which the client keeps in v.
IwMap(f) ==
    LET r == Option_map_with(iw.src.init, iw.src.slot, f)
    IN  /\ IsInvocableWith(f, 1)
        /\ IwStep("map", f, iw.src,
                  IF f.ret = "void" THEN [is_some |-> r.ret.init] ELSE iw.v, r)

\* auto r = std::move(v).map(f) on the Option<Void>
IwMapVoid(f) ==
    LET r == Option_map_with(EmptyStorage_is_some(iw.v),
                             EmptyStorage_unwrap_unsafe(iw.v), f)
    IN  /\ IsInvocableWith(f, VoidV)
        /\ IwStep("map_void", f, iw.src, iw.v, r)

-----------------------------------------------------------------------------
(* Object layout of Option<T> *)

MaxSize == 16

\* sizeof(T*) on the targets considered.
PtrSizes == {4, 8}

RoundUp(n, a) == ((n + a - 1) \div a) * a

Max(a, b) == IF a >= b THEN a ELSE b

\* A complete object type: its size, its alignment, whether it is an empty
\* class, whether std::is_trivial_v holds for it.
TypeOf(s, a, e, t) == [size |-> s, align |-> a, empty |-> e, trivial |-> t]

\* T*
PointerT(p) == TypeOf(p, p, FALSE, TRUE)

\* bool
BoolT == TypeOf(1, 1, FALSE, TRUE)

RECURSIVE EndOffset(_, _, _)
\* The offset after the last of the fields laid out from off on; an empty
\* base class takes no room.
EndOffset(fields, isBase, off) ==
    IF fields = <<>> THEN off
    ELSE LET h == Head(fields)
         IN  EndOffset(Tail(fields), isBase,
                       IF isBase /\ h.empty THEN off
                       ELSE RoundUp(off, h.align) + h.size)

RECURSIVE MaxAlign(_)
MaxAlign(fields) ==
    IF fields = <<>> THEN 1 ELSE Max(Head(fields).align, MaxAlign(Tail(fields)))

\* struct : bases { members }
StructOf(bases, members, trivial) ==
    LET a == Max(MaxAlign(bases), MaxAlign(members))
        end == EndOffset(members, FALSE, EndOffset(bases, TRUE, 0))
    IN  TypeOf(Max(1, RoundUp(end, a)), a,
               members = <<>> /\ \A i \in DOMAIN bases : bases[i].empty,
               trivial)

RECURSIVE MaxSizeOf(_)
MaxSizeOf(fields) ==
    IF fields = <<>> THEN 0 ELSE Max(Head(fields).size, MaxSizeOf(Tail(fields)))

\* union { members }
UnionOf(members) ==
    TypeOf(RoundUp(MaxSizeOf(members), MaxAlign(members)), MaxAlign(members),
           FALSE, TRUE)

\* struct Void { constexpr explicit Void(auto&&...) {} }: an empty class
\* whose default constructor is the user-provided constructor template.
VoidT == StructOf(<<>>, <<>>, FALSE)

\* struct Empty {}
EmptyT == StructOf(<<>>, <<>>, TRUE)

\* Ref<T>: one T* member.
RefT(p) == StructOf(<<>>, <<PointerT(p)>>, TRUE)

\* RawStorage<T>: alignas(T) std::byte data[sizeof(T)]; for a trivial empty
\* T, an empty class derived from T.
RawStorageT(t) ==
    IF t.trivial /\ t.empty THEN StructOf(<<t>>, <<>>, TRUE)
    ELSE TypeOf(t.size, t.align, FALSE, TRUE)

\* A generic storage without the flag.
GenericStorageT_NoFlag(t) == StructOf(<<RawStorageT(t)>>, <<>>, FALSE)

\* OptionStorage<T>, primary template: RawStorage<T> base, bool _initialized.
GenericStorageT(t) == StructOf(<<RawStorageT(t)>>, <<BoolT>>, FALSE)

\* OptionStorage<T> for a trivial empty T: T base, bool _is_some.
EmptyStorageT(t) == StructOf(<<t>>, <<BoolT>>, FALSE)

\* OptionStorage<Ref<T>>: union RawStorage { Ref<T> ref; T* raw; } storage.
RefStorageT(p) == StructOf(<<>>, <<UnionOf(<<RefT(p), PointerT(p)>>)>>, FALSE)

\* The specialization of OptionStorage that a payload type selects.
OptionStorageT(t) ==
    IF t.trivial /\ t.empty THEN EmptyStorageT(t) ELSE GenericStorageT(t)

\* Option<T> : OptionStorage<T>, no members of its own.
OptionT(storage) == StructOf(<<storage>>, <<>>, FALSE)

\* The payload types of the given size that are not empty.
PlainTypes ==
    {TypeOf(s, a, FALSE, tr) : s \in 1..MaxSize, a \in {1, 2, 4, 8}, tr \in BOOLEAN}

\* The layout computed last: which Option, for which pointer size and
\* payload, and its sizeof.
NoLay == [of |-> "none", ptr |-> 8, payload |-> BoolT, size |-> 0]

LayStep(of, p, t, o) ==
    /\ lay' = [of |-> of, ptr |-> p, payload |-> t, size |-> o.size]
    /\ UNCHANGED <<trivialT, opt, res, op, ret, calls, threw, pre, rpre,
                   swapRun, swapBase, origin, life, rlife, rf, same, iw>>

\* sizeof(Option<Ref<T>>)
SizeofOptionRef(p, t) == LayStep("ref", p, t, OptionT(RefStorageT(p)))

\* sizeof(Option<Void>)
SizeofOptionVoid(p) == LayStep("void", p, VoidT, OptionT(OptionStorageT(VoidT)))

\* sizeof(Option<Empty>)
SizeofOptionEmpty(p) == LayStep("empty", p, EmptyT, OptionT(OptionStorageT(EmptyT)))

\* sizeof(Option<T>) for a T with data members
SizeofOption(p, t) == LayStep("plain", p, t, OptionT(OptionStorageT(t)))

-----------------------------------------------------------------------------
(* ResultStorage<T,T>, the single-slot storage, next to ResultStorage<T,E> *)

\* ResultStorage<T,T>(OkTag, args...): the payload is the base subobject.
ResultStorageTT_Ok(v) == [is_ok |-> TRUE, inner |-> v]

\* ResultStorage<T,T>(ErrTag, args...)
ResultStorageTT_Err(e) == [is_ok |-> FALSE, inner |-> e]

\* ResultStorage<T,T>::is_ok()
ResultStorageTT_is_ok(s) == s.is_ok

\* ResultStorage<T,T>::unwrap_unsafe()
ResultStorageTT_unwrap_unsafe(s) == s.inner

\* ResultStorage<T,T>::unwrap_err_unsafe()
ResultStorageTT_unwrap_err_unsafe(s) == s.inner

\* A swap that exchanges the flags and leaves the payloads in place.
ResultStorageTT_swap_FlagOnly(this, other) ==
    [this |-> [this EXCEPT !.is_ok = other.is_ok],
     other |-> [other EXCEPT !.is_ok = this.is_ok]]

\* ResultStorage<T,T>::swap(other): std::swap of the flags, std::swap of the
\* payloads.
ResultStorageTT_swap(this, other) ==
    [this |-> [is_ok |-> other.is_ok, inner |-> other.inner],
     other |-> [is_ok |-> this.is_ok, inner |-> this.inner]]

\* What a caller can observe of a single-slot storage.
TTView(s) ==
    IF ResultStorageTT_is_ok(s)
    THEN <<"ok", ResultStorageTT_unwrap_unsafe(s)>>
    ELSE <<"err", ResultStorageTT_unwrap_err_unsafe(s)>>

\* The same client program run on both storages: g holds two-slot storages,
\* s single-slot ones; pg and ps are their states before the last operation.
NoSame ==
    [g |-> [n \in Names |-> ResultStorage_Ok(1)],
     s |-> [n \in Names |-> ResultStorageTT_Ok(1)],
     pg |-> [n \in Names |-> ResultStorage_Ok(1)],
     ps |-> [n \in Names |-> ResultStorageTT_Ok(1)],
     last |-> "init", x |-> "a", y |-> "a"]

SameStep(name, x, y, g, s) ==
    /\ same' = [g |-> g, s |-> s, pg |-> same.g, ps |-> same.s,
                last |-> name, x |-> x, y |-> y]
    /\ UNCHANGED <<trivialT, opt, res, op, ret, calls, threw, pre, rpre,
                   swapRun, swapBase, origin, life, rlife, rf, iw, lay>>

\* x = {Ok, v} in both programs
SameConstructOk(x, v) ==
    SameStep("ok_ctor", x, x,
             [same.g EXCEPT ![x] = ResultStorage_Ok(v)],
             [same.s EXCEPT ![x] = ResultStorageTT_Ok(v)])

\* x = {Err, e} in both programs
SameConstructErr(x, e) ==
    SameStep("err_ctor", x, x,
             [same.g EXCEPT ![x] = ResultStorage_Err(e)],
             [same.s EXCEPT ![x] = ResultStorageTT_Err(e)])

\* x.swap(y) in both programs
SameSwap(x, y) ==
    LET rg == ResultStorage_swap(trivialT, same.g[x], same.g[y])
        rs == ResultStorageTT_swap(same.s[x], same.s[y])
    IN  /\ x # y
        /\ SameStep("swap", x, y,
                    [same.g EXCEPT ![x] = rg.this, ![y] = rg.other],
                    [same.s EXCEPT ![x] = rs.this, ![y] = rs.other])

-----------------------------------------------------------------------------
ResultStates == {ResultStorage_Ok(v) : v \in Values}
                    \cup {ResultStorage_Err(e) : e \in Values}

InitLog ==
    /\ op = NoOp
    /\ ret = NoRet
    /\ calls = 0
    /\ threw = FALSE
    /\ pre = opt
    /\ rpre = res
    /\ swapRun = 0
    /\ swapBase = opt
    /\ origin = [n \in Names |-> IF opt[n].init THEN opt[n].slot ELSE 0]
    /\ life = NoLife
    /\ rlife = NoRLife
    /\ rf = NoRf
    /\ same = NoSame
    /\ iw = NoIw
    /\ lay = NoLay

\* A client of Option<T>: two freshly constructed Options.
Init ==
    /\ trivialT \in BOOLEAN
    /\ opt \in [Names -> OptionStates]
    /\ res = [n \in Names |-> ResultStorage_Ok(1)]
    /\ InitLog

Next ==
    \/ \E x \in Names : ConstructNone(x)
    \/ \E x \in Names, v \in Values : ConstructSome(x, v)
    \/ \E x \in Names : AssignNone(x)
    \/ \E x \in Names : Take(x)
    \/ \E x \in Names, v \in Values, fail \in BOOLEAN : Insert(x, v, fail)
    \/ \E x \in Names, y \in Names : Swap(x, y)
    \/ \E x \in Names, y \in Names : CopyConstruct(x, y)
    \/ \E x \in Names, y \in Names : MoveConstruct(x, y)
    \/ \E x \in Names, y \in Names : CopyAssign(x, y)
    \/ \E x \in Names, y \in Names : MoveAssign(x, y)
    \/ \E x \in Names, ov \in Overloads : Unwrap(x, ov)
    \/ \E x \in Names, consume \in BOOLEAN : MapRvalue(x, consume)
    \/ \E x \in Names : MapConst(x)
    \/ \E x \in Names, y \in Names, g \in LiveVals : Compare(x, y, g)
    \/ \E x \in Names, ov \in Overloads : AsRef(x, ov)
    \/ \E x \in Names, w \in Values : AsRefMap(x, w)
    \/ \E x \in Names, ov \in Overloads : UnwrapOrDefault(x, ov)
    \/ \E x \in Names, d \in Values, ov \in Overloads : UnwrapOr(x, d, ov)
    \/ \E x \in Names, g \in Values, ov \in Overloads : UnwrapOrElse(x, g, ov)
    \/ \E x \in Names, ov \in Overloads, consume \in BOOLEAN, fnone \in BOOLEAN :
            AndThen(x, ov, consume, fnone)
    \/ \E x \in Names, ov \in Overloads, d \in Values, fnone \in BOOLEAN :
            OrElse(x, ov, d, fnone)

Spec == Init /\ [][Next]_vars

\* A client that swaps Options and Results: freshly constructed containers
\* in every combination of present/absent and ok/err.
InitSwap ==
    /\ trivialT \in BOOLEAN
    /\ opt \in [Names -> OptionStates]
    /\ res \in [Names -> ResultStates]
    /\ InitLog

NextSwap ==
    \/ \E x \in Names, y \in Names : Swap(x, y)
    \/ \E x \in Names, y \in Names : ResultSwap(x, y)

SpecSwap == InitSwap /\ [][NextSwap]_vars

\* A client of Result<T,E>: two freshly constructed Results, ok or err.
InitResult ==
    /\ trivialT \in BOOLEAN
    /\ opt = [n \in Names |-> OptionStorage_None]
    /\ res \in [Names -> ResultStates]
    /\ InitLog

NextResult ==
    \/ \E x \in Names, v \in Values : ConstructOk(x, v)
    \/ \E x \in Names, e \in Values : ConstructErr(x, e)
    \/ \E x \in Names : IsOk(x)
    \/ \E x \in Names : IsErr(x)
    \/ \E x \in Names, ov \in Overloads : ResultUnwrap(x, ov)
    \/ \E x \in Names, ov \in Overloads : ResultUnwrapErr(x, ov)
    \/ \E x \in Names, ov \in Overloads : ResultOk(x, ov)
    \/ \E x \in Names, ov \in Overloads : ResultErr(x, ov)
    \/ \E x \in Names, ov \in Overloads, consume \in BOOLEAN : ResultMap(x, ov, consume)
    \/ \E x \in Names, ov \in Overloads, consume \in BOOLEAN : ResultMapErr(x, ov, consume)
    \/ \E x \in Names, ov \in Overloads, consume \in BOOLEAN, ferr \in BOOLEAN :
            ResultAndThen(x, ov, consume, ferr)
    \/ \E x \in Names, ov \in Overloads, consume \in BOOLEAN, ferr \in BOOLEAN :
            ResultOrElse(x, ov, consume, ferr)
    \/ \E x \in Names, y \in Names : ResultSwap(x, y)

SpecResult == InitResult /\ [][NextResult]_vars

\* A client that creates, copies, moves, assigns, swaps and destroys Options
\* over a non-trivially-destructible T, with constructors that may throw.
InitLife ==
    /\ trivialT = FALSE
    /\ opt = [n \in Names |-> OptionStorage_None]
    /\ res = [n \in Names |-> ResultStorage_Ok(1)]
    /\ InitLog

NextLife ==
    \/ \E x \in Names : LConstructNone(x)
    \/ \E x \in Names, failAt \in 0..MaxSteps : LConstructSome(x, failAt)
    \/ \E x \in Names, y \in Names, failAt \in 0..MaxSteps : LCopyConstruct(x, y, failAt)
    \/ \E x \in Names, y \in Names, failAt \in 0..MaxSteps : LMoveConstruct(x, y, failAt)
    \/ \E x \in Names, y \in Names, failAt \in 0..MaxSteps : LCopyAssign(x, y, failAt)
    \/ \E x \in Names, y \in Names, failAt \in 0..MaxSteps : LMoveAssign(x, y, failAt)
    \/ \E x \in Names, failAt \in 0..MaxSteps : LAssignNone(x, failAt)
    \/ \E x \in Names, y \in Names, failAt \in 0..MaxSteps : LSwap(x, y, failAt)
    \/ \E x \in Names, failAt \in 0..MaxSteps : LTake(x, failAt)
    \/ \E x \in Names, failAt \in 0..MaxSteps : LInsert(x, failAt)
    \/ \E x \in Names : LDestroy(x)

SpecLife == InitLife /\ [][NextLife]_vars

\* A client that creates, copies, moves, assigns, swaps and destroys Results
\* whose E owns a resource, with payload constructors that may throw.
InitRLife ==
    /\ trivialT \in BOOLEAN
    /\ opt = [n \in Names |-> OptionStorage_None]
    /\ res = [n \in Names |-> ResultStorage_Ok(1)]
    /\ InitLog

NextRLife ==
    \/ \E x \in Names, failAt \in 0..MaxSteps : RLConstructOk(x, failAt)
    \/ \E x \in Names, failAt \in 0..MaxSteps : RLConstructErr(x, failAt)
    \/ \E x \in Names, y \in Names, failAt \in 0..MaxSteps : RLCopyConstruct(x, y, failAt)
    \/ \E x \in Names, y \in Names, failAt \in 0..MaxSteps : RLMoveConstruct(x, y, failAt)
    \/ \E x \in Names, y \in Names, failAt \in 0..MaxSteps : RLCopyAssign(x, y, failAt)
    \/ \E x \in Names, y \in Names, failAt \in 0..MaxSteps : RLMoveAssign(x, y, failAt)
    \/ \E x \in Names, y \in Names, failAt \in 0..MaxSteps : RLSwap(x, y, failAt)
    \/ \E x \in Names : RLDestroy(x)

SpecRLife == InitRLife /\ [][NextRLife]_vars

\* A client of Option<Ref<T>> and of the two referents.
InitRef ==
    /\ trivialT = TRUE
    /\ opt = [n \in Names |-> OptionStorage_None]
    /\ res = [n \in Names |-> ResultStorage_Ok(1)]
    /\ InitLog

NextRef ==
    \/ \E x \in Names : RfConstructNone(x)
    \/ \E x \in Names, a \in Addrs : RfConstructSome(x, a)
    \/ \E x \in Names, y \in Names : RfSwap(x, y)
    \/ \E x \in Names : RfTake(x)
    \/ \E x \in Names, a \in Addrs : RfInsert(x, a)
    \/ \E x \in Names, y \in Names : RfCopy(x, y)
    \/ \E x \in Names : RfUnwrap(x)
    \/ \E x \in Names, a \in Addrs : RfRebind(x, a)
    \/ \E a \in Addrs, w \in Values : RfStore(a, w)
    \/ \E x \in Names : RfRead(x)

SpecRef == InitRef /\ [][NextRef]_vars

\* A client that constructs and swaps Results, run on both storages.
InitSame ==
    /\ trivialT \in BOOLEAN
    /\ opt = [n \in Names |-> OptionStorage_None]
    /\ res = [n \in Names |-> ResultStorage_Ok(1)]
    /\ InitLog

NextSame ==
    \/ \E x \in Names, v \in Values : SameConstructOk(x, v)
    \/ \E x \in Names, e \in Values : SameConstructErr(x, e)
    \/ \E x \in Names, y \in Names : SameSwap(x, y)

SpecSame == InitSame /\ [][NextSame]_vars

\* A client that maps callables of every kind over an Option<T> and over an
\* Option<Void>.
InitInvoke ==
    /\ trivialT \in BOOLEAN
    /\ opt = [n \in Names |-> OptionStorage_None]
    /\ res = [n \in Names |-> ResultStorage_Ok(1)]
    /\ InitLog

NextInvoke ==
    \/ \E s \in OptionStates : IwConstruct(s)
    \/ \E s \in {EmptyStorage_None, EmptyStorage_Some} : IwConstructVoid(s)
    \/ \E f \in Fns : IwMap(f)
    \/ \E f \in Fns : IwMapVoid(f)

SpecInvoke == InitInvoke /\ [][NextInvoke]_vars

\* The sizes of Option over every payload type considered.
InitLayout ==
    /\ trivialT \in BOOLEAN
    /\ opt = [n \in Names |-> OptionStorage_None]
    /\ res = [n \in Names |-> ResultStorage_Ok(1)]
    /\ InitLog

NextLayout ==
    \/ \E p \in PtrSizes, t \in PlainTypes : t.size % t.align = 0 /\ SizeofOptionRef(p, t)
    \/ \E p \in PtrSizes : SizeofOptionVoid(p)
    \/ \E p \in PtrSizes : SizeofOptionEmpty(p)
    \/ \E p \in PtrSizes, t \in PlainTypes : t.size % t.align = 0 /\ SizeofOption(p, t)

SpecLayout == InitLayout /\ [][NextLayout]_vars

\* A client that applies the combinators of Option and of Result, through
\* the consuming and the const overloads: either its Options or its Results
\* start in every combination of states.
InitConst ==
    /\ trivialT \in BOOLEAN
    /\ \/ /\ opt \in [Names -> OptionStates]
          /\ res = [n \in Names |-> ResultStorage_Ok(1)]
       \/ /\ opt = [n \in Names |-> OptionStorage_None]
          /\ res \in [Names -> ResultStates]
    /\ InitLog

NextConst ==
    \/ \E x \in Names, consume \in BOOLEAN : MapRvalue(x, consume)
    \/ \E x \in Names : MapConst(x)
    \/ \E x \in Names, ov \in Overloads, consume \in BOOLEAN, fnone \in BOOLEAN :
            AndThen(x, ov, consume, fnone)
    \/ \E x \in Names, ov \in Overloads, d \in Values, fnone \in BOOLEAN :
            OrElse(x, ov, d, fnone)
    \/ \E x \in Names, ov \in Overloads : UnwrapOrDefault(x, ov)
    \/ \E x \in Names, d \in Values, ov \in Overloads : UnwrapOr(x, d, ov)
    \/ \E x \in Names, g \in Values, ov \in Overloads : UnwrapOrElse(x, g, ov)
    \/ \E x \in Names, ov \in Overloads : ResultOk(x, ov)
    \/ \E x \in Names, ov \in Overloads : ResultErr(x, ov)
    \/ \E x \in Names, ov \in Overloads, consume \in BOOLEAN : ResultMap(x, ov, consume)
    \/ \E x \in Names, ov \in Overloads, consume \in BOOLEAN : ResultMapErr(x, ov, consume)
    \/ \E x \in Names, ov \in Overloads, consume \in BOOLEAN, ferr \in BOOLEAN :
            ResultAndThen(x, ov, consume, ferr)
    \/ \E x \in Names, ov \in Overloads, consume \in BOOLEAN, ferr \in BOOLEAN :
            ResultOrElse(x, ov, consume, ferr)

SpecConst == InitConst /\ [][NextConst]_vars

-----------------------------------------------------------------------------
(* Properties *)

\* C1: take() on any Option, present or absent, leaves it absent and returns
\* an Option whose presence and payload are what it held before the call.
C1_TakeExtractsAndResets ==
    op.name = "take" =>
        /\ ~opt[op.x].init
        /\ ret.kind = "opt"
        /\ View(ret) = View(pre[op.x])

C1_Witness == op.name = "take" /\ pre[op.x].init /\ pre[op.x].slot \in Values

\* C2: insert(args...) that returns leaves the Option present with the payload
\* built from args and returns an Option equal to what was held before.
C2_InsertReplacesAndReturnsOld ==
    op.name = "insert" /\ ~op.fail =>
        /\ ~threw
        /\ opt[op.x].init
        /\ opt[op.x].slot = op.arg
        /\ ret.kind = "opt"
        /\ View(ret) = View(pre[op.x])

C2_Witness ==
    /\ op.name = "insert" /\ ~op.fail
    /\ pre[op.x].init /\ pre[op.x].slot \in Values /\ pre[op.x].slot # op.arg

\* C3: when building the new payload fails inside insert(args...), the failure
\* reaches the caller and the Option is exactly as it was before the call.
C3_InsertFailureLeavesThisUntouched ==
    op.name = "insert" /\ op.fail =>
        /\ threw
        /\ opt[op.x] = pre[op.x]

C3_Witness == op.name = "insert" /\ op.fail /\ threw /\ pre[op.x].init

\* C4: a <=> b uses each operand's own presence: absent < present,
\* present > absent, absent == absent, and two present Options compare as
\* their payloads do.
C4_CompareUsesBothFlags ==
    op.name = "cmp" =>
        LET a == pre[op.x]
            b == pre[op.y]
        IN  ret.slot = IF ~a.init /\ b.init THEN "less"
                       ELSE IF a.init /\ ~b.init THEN "greater"
                       ELSE IF ~a.init THEN "equivalent"
                       ELSE Cmp3(a.slot, b.slot)

\* C5: after move-constructing or move-assigning an Option from a source, the
\* source is absent and the destination holds what the source held.
C5_MovedFromIsAbsent ==
    op.name \in {"move_construct", "move_assign"} =>
        /\ ~opt[op.x].init
        /\ View(opt[op.y]) = View(pre[op.x])

C8_MapRvalueEmptiesSource ==
    op.name = "map" /\ op.ov = "rvalue" /\ pre[op.x].init =>
        /\ calls = 1
        /\ ret = OptRet([init |-> TRUE, slot |-> F(pre[op.x].slot)])
        /\ ~opt[op.x].init

\* C8 (amended): map over a present Option through the rvalue overload
\* invokes f once, returns Some(f(payload)) and leaves the original still
\* present; its payload stays in place, unchanged or moved-from by f.
C8_MapRvalueKeepsSourcePresent ==
    op.name = "map" /\ op.ov = "rvalue" /\ pre[op.x].init =>
        /\ calls = 1
        /\ ret = OptRet([init |-> TRUE, slot |-> F(pre[op.x].slot)])
        /\ opt[op.x].init
        /\ opt[op.x].slot \in {pre[op.x].slot, Moved}

C8_Witness ==
    /\ op.name = "map" /\ op.ov = "rvalue" /\ op.consume /\ ~trivialT
    /\ pre[op.x].init /\ pre[op.x].slot \in Values

\* C9: map over an absent Option never invokes f and returns an absent
\* Option, through the rvalue and the const overload alike.
C9_MapAbsentNeverInvokes ==
    op.name = "map" /\ ~pre[op.x].init =>
        /\ calls = 0
        /\ ret.kind = "opt"
        /\ ~ret.init
        /\ opt[op.x] = pre[op.x]

C9_Witness == op.name = "map" /\ ~pre[op.x].init /\ op.ov = "const"

\* C10: an Option built as Option{Some, v} and then unwrapped yields v, through
\* the lvalue, const and rvalue overloads; unwrap() on a present Option never
\* fails.
C10_SomeUnwrapRoundTrip ==
    op.name = "unwrap" =>
        /\ pre[op.x].init => ~threw /\ ret.kind = "val"
        /\ origin[op.x] # 0 => ret = ValRet(origin[op.x])

C10_Witness ==
    op.name = "unwrap" /\ op.ov = "rvalue" /\ origin[op.x] \in Values /\ ~threw


\* C11: unwrap() on an absent Option signals a runtime failure, returns no
\* payload, and the Option is still absent after the failed call.
C11_UnwrapAbsentFails ==
    op.name = "unwrap" /\ ~pre[op.x].init =>
        /\ threw
        /\ ret = NoRet
        /\ ~opt[op.x].init
        /\ opt = pre

C11_Witness == op.name = "unwrap" /\ ~pre[op.x].init /\ threw

\* C12: as_ref() neither consumes nor copies the payload: the result is
\* present iff the source is, the source is unchanged by the call, and a
\* store made through the returned reference is seen by a later unwrap of
\* the original Option.
C12_AsRefAliasesPayload ==
    /\ op.name = "as_ref" =>
        /\ ret.kind = "ref"
        /\ ret.init = pre[op.x].init
        /\ ret.init => ret.slot = op.x
        /\ opt = pre
    /\ op.name = "as_ref_map" =>
        /\ opt[op.x].init = pre[op.x].init
        /\ ret = VoidRet(pre[op.x].init)
        /\ calls = IF pre[op.x].init THEN 1 ELSE 0
        /\ pre[op.x].init => Option_unwrap(opt[op.x], "lvalue").ret = ValRet(op.arg)
        /\ ~pre[op.x].init => opt = pre
        /\ \A n \in Names \ {op.x} : opt[n] = pre[n]

C12_Witness ==
    op.name = "as_ref_map" /\ pre[op.x].init /\ pre[op.x].slot # op.arg

C19_OrElseRecovers ==
    op.name = "or_else" =>
        IF pre[op.x].init
        THEN /\ calls = 0
             /\ ret.kind = "opt"
             /\ View(ret) = View(pre[op.x])
        ELSE /\ calls = 1
             /\ ret = OptRet(IF op.fnone
                             THEN [init |-> FALSE, slot |-> Dead]
                             ELSE [init |-> TRUE, slot |-> op.arg])

C19_Witness ==
    op.name = "or_else" /\ pre[op.x].init /\ pre[op.x].slot \in Values /\ ~op.fnone
        /\ op.arg # pre[op.x].slot

\* C20: unwrap_or(d), unwrap_or_default() and unwrap_or_else(g) return the
\* payload when the Option is present and the fallback (d, T{}, g()) when it
\* is absent, without failing; g is invoked only when the Option is absent.
C20_UnwrapOrFallback ==
    op.name \in {"unwrap_or", "unwrap_or_default", "unwrap_or_else"} =>
        /\ ~threw
        /\ ret = ValRet(IF pre[op.x].init THEN pre[op.x].slot
                        ELSE IF op.name = "unwrap_or_default" THEN DefaultT
                        ELSE op.arg)
        /\ calls = IF op.name = "unwrap_or_else" /\ ~pre[op.x].init THEN 1 ELSE 0

C20_Witness ==
    op.name = "unwrap_or_else" /\ pre[op.x].init /\ pre[op.x].slot \in Values

\* C13: for every Result exactly one of is_ok() and is_err() is true, and
\* is_err() answers the negation of is_ok().
C13_OkXorErr ==
    /\ \A n \in Names : Result_is_ok(res[n]) # Result_is_err(res[n])
    /\ op.name = "is_err" => ret = BoolRet(~Result_is_ok(res[op.x]))
    /\ op.name = "is_ok" => ret = BoolRet(res[op.x].init)

C13_Witness == op.name = "is_err" /\ ret = BoolRet(TRUE) /\ ~res[op.x].init

\* C14: unwrap() on an err Result and unwrap_err() on an ok Result fail; on
\* the matching variant they return the T, resp. E, payload; a failed call
\* leaves the Result and its flag unchanged.
C14_ResultUnwrapChecked ==
    /\ op.name = "r_unwrap" =>
           /\ IF rpre[op.x].init
              THEN ~threw /\ ret = ValRet(rpre[op.x].slot)
              ELSE threw /\ ret = NoRet
           /\ res = rpre
    /\ op.name = "r_unwrap_err" =>
           /\ IF rpre[op.x].init
              THEN threw /\ ret = NoRet
              ELSE ~threw /\ ret = ValRet(rpre[op.x].err)
           /\ res = rpre

C14_Witness == op.name = "r_unwrap_err" /\ rpre[op.x].init /\ threw /\ res[op.x].init

\* C15: ok() is a present Option<T> holding the ok payload exactly when the
\* Result is ok, err() a present Option<E> holding the err payload exactly
\* when it is err; for any Result exactly one of the two is present.
C15_OkErrProjections ==
    /\ op.name = "r_ok" =>
           /\ ret.kind = "opt"
           /\ ret.init = rpre[op.x].init
           /\ ret.init => ret.slot = rpre[op.x].slot
           /\ res[op.x].init = rpre[op.x].init
    /\ op.name = "r_err" =>
           /\ ret.kind = "opt"
           /\ ret.init = ~rpre[op.x].init
           /\ ret.init => ret.slot = rpre[op.x].err
           /\ res[op.x].init = rpre[op.x].init
    /\ \A n \in Names :
           Result_ok(trivialT, res[n], "const").ret.init
               # Result_err(res[n], "const").ret.init

C15_Witness == op.name = "r_err" /\ ret.init /\ ret.slot \in Values

\* C16: map transforms only the ok variant and map_err only the err variant.
\* On the other variant f is not invoked and the payload is passed through;
\* on the matching variant f is invoked once; the flag is preserved.
C16_MapSides ==
    /\ op.name = "r_map" =>
           /\ ret = IF rpre[op.x].init
                    THEN [kind |-> "res", init |-> TRUE,
                          slot |-> F(rpre[op.x].slot), err |-> Dead]
                    ELSE [kind |-> "res", init |-> FALSE,
                          slot |-> Dead, err |-> rpre[op.x].err]
           /\ calls = IF rpre[op.x].init THEN 1 ELSE 0
           /\ res[op.x].init = rpre[op.x].init
    /\ op.name = "r_map_err" =>
           /\ ret = IF rpre[op.x].init
                    THEN [kind |-> "res", init |-> TRUE,
                          slot |-> rpre[op.x].slot, err |-> Dead]
                    ELSE [kind |-> "res", init |-> FALSE,
                          slot |-> Dead, err |-> F(rpre[op.x].err)]
           /\ calls = IF rpre[op.x].init THEN 0 ELSE 1
           /\ res[op.x].init = rpre[op.x].init

C16_Witness ==
    op.name = "r_map_err" /\ rpre[op.x].init /\ rpre[op.x].slot \in Values
        /\ calls = 0 /\ ret.init

\* C17: and_then(f) on ok returns exactly f(value); on err it returns an err
\* Result with the original error and does not invoke f.  or_else(f) on err
\* returns exactly f(error); on ok it returns an ok Result with the original
\* value and does not invoke f.
C17_ResultBind ==
    /\ op.name = "r_and_then" =>
           IF rpre[op.x].init
           THEN calls = 1 /\ ret = ResRet(FR(rpre[op.x].slot, op.fnone))
           ELSE calls = 0 /\ ret = [kind |-> "res", init |-> FALSE,
                                    slot |-> Dead, err |-> rpre[op.x].err]
    /\ op.name = "r_or_else" =>
           IF rpre[op.x].init
           THEN calls = 0 /\ ret = [kind |-> "res", init |-> TRUE,
                                    slot |-> rpre[op.x].slot, err |-> Dead]
           ELSE calls = 1 /\ ret = ResRet(FRE(rpre[op.x].err, op.fnone))

C17_Witness ==
    op.name = "r_and_then" /\ rpre[op.x].init /\ op.fnone /\ ~ret.init
        /\ ret.err = rpre[op.x].slot

\* C23: in every state reached by construct, copy, move, assign, swap, take,
\* insert and destroy, including after a payload constructor has thrown, the
\* presence flag of a container is true exactly when its slot holds a live T.
C23_FlagIffLive ==
    \A n \in life.alive : life.c[n].init <=> life.c[n].slot \in life.heap

\* A swap into an empty container whose move constructor threw part-way.
C23_Witness ==
    /\ life.last = "swap" /\ life.threw
    /\ \E n \in life.alive : life.c[n].init /\ life.c[n].slot \in life.heap
    /\ \E n \in life.alive : ~life.c[n].init /\ life.c[n].slot = Dead

\* C25: every payload that is constructed is destroyed exactly once: no
\* destructor runs on a slot without a live object, the live objects are
\* exactly those held by the present containers, one each, the temporaries
\* are gone, and nothing is left once every container is destroyed.
C25_DestroyedExactlyOnce ==
    /\ ~life.bad
    /\ life.heap = {life.c[n].slot : n \in {k \in life.alive : life.c[k].init}}
    /\ \A n \in life.alive, k \in life.alive :
           n # k /\ life.c[n].init /\ life.c[k].init => life.c[n].slot # life.c[k].slot
    /\ \A o \in Objs \ life.alive : life.c[o] = OptionStorage_None
    /\ life.alive = {} => life.heap = {}

C25_Witness ==
    life.last = "destroy" /\ life.alive = {} /\ life.preHeap # {} /\ life.heap = {}

\* C24: in every state reached by construct, copy, move, assign and swap,
\* including a mixed swap in which moving the error payload throws, a Result
\* flagged ok has a live T and no live E, and a Result flagged err has a
\* live E and no live T.
C24_FlagSelectsLiveSlot ==
    \A n \in rlife.alive :
        IF rlife.c[n].init
        THEN /\ trivialT \/ rlife.c[n].slot \in rlife.heap
             /\ rlife.c[n].err \notin rlife.heap
        ELSE /\ rlife.c[n].err \in rlife.heap
             /\ rlife.c[n].slot \notin rlife.heap

\* C26: copy- or move-constructing a Result over an owning E gives the new
\* Result the same flag and its own, separately constructed live payload in
\* the matching slot.
C26_CopyOwnsItsPayload ==
    rlife.last \in {"copy_construct", "move_construct"} /\ ~rlife.threw =>
        LET src == rlife.c[rlife.x]
            new == rlife.c[rlife.y]
        IN  /\ new.init = src.init
            /\ new.init => trivialT \/ (new.slot \in rlife.heap /\ new.slot # src.slot)
            /\ ~new.init => new.err \in rlife.heap /\ new.err # src.err

\* C27: in OptionStorage<Ref<T>> presence is the stored address: None stores
\* null, Some(ref) stores ref's non-null address, and after any construct,
\* swap, take, insert or copy is_some() holds exactly when the address is
\* non-null, unwrap yielding a Ref to exactly the stored referent.
C27_RefPresenceIsAddress ==
    /\ \A n \in Names : /\ rf.o[n].raw \in Addrs \cup {Null}
                        /\ RefStorage_is_some(rf.o[n]) <=> rf.o[n].raw \in Addrs
    /\ rf.last = "construct_none" => rf.o[rf.x].raw = Null
    /\ rf.last = "construct_some" => rf.o[rf.x].raw = rf.arg /\ rf.arg # Null
    /\ rf.last = "take" => rf.o[rf.x].raw = Null /\ rf.ret = rf.pre[rf.x].raw
    /\ rf.last = "insert" => rf.o[rf.x].raw = rf.arg /\ rf.ret = rf.pre[rf.x].raw
    /\ rf.last = "swap" => rf.o[rf.x] = rf.pre[rf.y] /\ rf.o[rf.y] = rf.pre[rf.x]
    /\ rf.last = "copy" => rf.o[rf.y] = rf.pre[rf.x] /\ rf.o[rf.x] = rf.pre[rf.x]
    /\ rf.last = "unwrap" =>
           IF rf.o[rf.x].raw = Null THEN rf.threw
           ELSE ~rf.threw /\ rf.ret = rf.o[rf.x].raw

C27_Witness ==
    /\ rf.last = "swap"
    /\ rf.pre[rf.x].raw = Null /\ rf.pre[rf.y].raw \in Addrs
    /\ RefStorage_is_some(rf.o[rf.x]) /\ ~RefStorage_is_some(rf.o[rf.y])

\* C28: assigning a new Ref to the Ref inside an Option<Ref<T>> rebinds the
\* Option and modifies no referent; a later read through the Option sees the
\* new referent, including a mutation made to it after the rebinding, while
\* the old referent keeps its value; copying duplicates the address.
C28_RebindDoesNotWriteThrough ==
    /\ rf.last = "rebind" =>
           /\ rf.mem = rf.premem
           /\ RefStorage_is_some(rf.pre[rf.x]) => rf.o[rf.x].raw = rf.arg
           /\ ~RefStorage_is_some(rf.pre[rf.x]) => rf.o = rf.pre
           /\ \A n \in Names \ {rf.x} : rf.o[n] = rf.pre[n]
    /\ rf.chain.stage = 3 =>
           /\ rf.ret = rf.chain.w
           /\ rf.mem[rf.chain.old] = rf.chain.oldval
    /\ rf.last = "copy" => rf.o[rf.y].raw = rf.o[rf.x].raw /\ rf.mem = rf.premem

C28_Witness ==
    /\ rf.chain.stage = 3 /\ rf.last = "read"
    /\ rf.chain.w # rf.chain.oldval
    /\ rf.o[rf.x].raw = rf.chain.new

\* C30: the const-qualified overloads of the Option and Result combinators
\* leave the source container as it was, flag and payload, whether or not
\* the supplied function is invoked.
C30_ConstOverloadsFrame ==
    /\ op.ov = "const"
         /\ op.name \in {"map", "and_then", "or_else", "unwrap_or",
                         "unwrap_or_default", "unwrap_or_else"}
       => opt = pre
    /\ op.ov = "const"
         /\ op.name \in {"r_map", "r_map_err", "r_and_then", "r_or_else",
                         "r_ok", "r_err"}
       => res = rpre

C30_Witness ==
    /\ op.name = "unwrap_or_else" /\ op.ov = "const" /\ ~trivialT
    /\ pre[op.x].init /\ pre[op.x].slot \in Values /\ opt[op.x] = pre[op.x]

C21_MapVoidAndReferences ==
    /\ iw.last = "map" /\ iw.f.ret = "void" =>
          /\ iw.ret.kind = "void"
          /\ iw.ret.init = iw.psrc.init
          /\ iw.v.is_some = iw.psrc.init
          /\ iw.calls = IF iw.psrc.init THEN 1 ELSE 0
    /\ iw.last = "map_void" =>
          /\ iw.calls = IF iw.pv.is_some THEN 1 ELSE 0
          /\ iw.nargs = 0
          /\ iw.ret.init = iw.pv.is_some
    /\ iw.last \in {"map", "map_void"} /\ iw.f.ret = "lref" =>
          /\ iw.ret.kind = "ref"
          /\ iw.ret.slot = IF iw.calls = 1 THEN iw.f.target ELSE Null

C21_Witness ==
    /\ iw.last = "map_void" /\ iw.f.ret = "lref" /\ iw.pv.is_some
    /\ iw.calls = 1 /\ iw.nargs = 0 /\ iw.ret.slot = iw.f.target

Layout_TrivialPayloads ==
    /\ lay.of = "ref" => lay.size = PointerT(lay.ptr).size
    /\ lay.of # "none" /\ lay.payload.empty /\ lay.payload.trivial =>
          lay.size = BoolT.size
    /\ lay.of = "plain" => lay.size > lay.payload.size
=============================================================================
